---- MODULE Spec2Model ----
(***************************************************************************)
(* Builder/invariant-enforcement engine of openapi-builders.               *)
(*                                                                         *)
(* One behaviour follows ONE builder instance of one family (3.0 or 3.1):  *)
(* its constructor, then a bounded sequence of setter / adder / bulk /     *)
(* build() calls.  The private draft `this.target` is a function from the  *)
(* names of its own properties to their values, so that "absent" (no key)  *)
(* and "present with value undefined" are different states.                *)
(*                                                                         *)
(* The body of every method of src/src/3.1/Builders.ts and                 *)
(* src/src/3.0/Builders.ts is transcribed statement by statement into a    *)
(* small statement form (CheckDuplicate, If, Assign, MapSet, ...) and      *)
(* executed by Exec, which implements the helper functions of Errors.ts    *)
(* (field-name convention, the one Builders.ts of 3.1 calls) and the       *)
(* validate* functions of the 3.0 builders.                                *)
(*                                                                         *)
(* JavaScript values are encoded as strings: a string primitive is itself, *)
(* other primitives start with "#" ("#true", "#0", "#null", "#undefined"), *)
(* and an object is the name of a cell of Heap (its identity).  Map, plain *)
(* object and array fields of a draft are functions and sequences.         *)
(***************************************************************************)
EXTENDS Integers, Sequences, FiniteSets, TLC

VARIABLES family, kind, phase, target, pre, last, n, built, returned

vars == <<family, kind, phase, target, pre, last, n, built, returned>>

-----------------------------------------------------------------------------
(* Bounds *)

\* Number of setter/adder calls (bulk entries count one each) made on a builder
MaxCalls == 2

\* Largest collection handed to a bulk adder
MaxBulk == 2

-----------------------------------------------------------------------------
(* JavaScript values *)

Undefined == "#undefined"

Null == "#null"

True == "#true"

False == "#false"

\* Values for which `if (v)` takes the else branch
Falsy == {"", "#0", "#false", "#null", "#undefined", "#NaN"}

\* Object cells: o1 and o2 are distinct objects with equal content, o3 differs
Heap ==
    "o1" :> ("name" :> "x")
    @@ "o2" :> ("name" :> "x")
    @@ "o3" :> ("name" :> "y")
    @@ "o4" :> ("name" :> "z" @@ "nested" :> "o1")
    @@ "o5" :> ("name" :> "z" @@ "nested" :> "o2")
    @@ "o6" :> ("name" :> "z" @@ "nested" :> "o3")
    @@ "u1" :> ("name" :> "x" @@ "a" :> "#undefined")
    @@ "u2" :> ("name" :> "x" @@ "b" :> "#undefined")
    @@ "u3" :> ("name" :> "x" @@ "b" :> "y")
    @@ "p1" :> ("get" :> "op1")
    @@ "op1" :> ("responses" :> "rs1")
    @@ "rs1" :> ("200" :> "r1")
    @@ "r1" :> ("description" :> "x")

\* Property names every plain object ({}) inherits from Object.prototype
ObjectPrototypeKeys == {"constructor", "toString", "valueOf", "hasOwnProperty"}

StringVals == {"a", "b"}

UrlVals == {"https://example.com/x", "https://example.com/y", "not a URL"}

PathVals == {"/widgets", "/users", "users"}

NameVals == {"n1", "n2", "constructor"}

StatusVals == {"200", "404", "default"}

BooleanVals == {True, False}

NumberVals == {"#1", "#2"}

PrimitiveVals == {"a", "b", "#1", "#2", Null}

ObjectVals == {"o1", "o2", "o3"}

\* Values for the element of a list: flat objects, objects with a nested one,
\* and objects with an optional property written out as undefined
ElementVals == {"o1", "o2", "o3", "o4", "o5", "o6", "u1", "u2", "u3"}

\* Path items: flat ones, and one with a GET operation whose responses have "200"
PathItemVals == {"o1", "o3", "p1"}

StringsVals == {<<>>, <<"a">>, <<"a", "b">>}

\* Sequences of at most MaxBulk <<key, value>> entries with pairwise distinct keys,
\* in the order the caller's collection enumerates them
RECURSIVE EntriesOver(_, _, _)
EntriesOver(keys, vals, len) ==
    IF len = 0 THEN {<<>>}
    ELSE LET shorter == EntriesOver(keys, vals, len - 1)
         IN  shorter \cup
             { Append(s, <<k, v>>) :
                 s \in {x \in shorter : Len(x) = len - 1},
                 k \in keys, v \in vals }

DistinctKeys(s) == \A i, j \in 1..Len(s) : i # j => s[i][1] # s[j][1]

Entries(keys, vals) == {s \in EntriesOver(keys, vals, MaxBulk) : DistinctKeys(s)}

\* for (const key in object) visits the integer-like keys of a plain object
\* before its other keys
ForInOrder(s) ==
    \A i, j \in 1..Len(s) :
        i < j => ~(s[i][1] \notin StatusVals \ {"default"} /\ s[j][1] \in StatusVals \ {"default"})

RECURSIVE SeqsUpTo(_, _)
SeqsUpTo(vals, len) ==
    IF len = 0 THEN {<<>>}
    ELSE LET shorter == SeqsUpTo(vals, len - 1)
         IN  shorter \cup
             { Append(s, v) : s \in {x \in shorter : Len(x) = len - 1}, v \in vals }

\* Values a caller can pass for a parameter of the given kind
Dom(type) ==
    CASE type = "string"        -> StringVals
      [] type = "string?"       -> {"a", Undefined}
      [] type = "url"           -> UrlVals
      [] type = "path"          -> PathVals
      [] type = "name"          -> NameVals
      [] type = "name?"         -> {"n1", Undefined}
      [] type = "status"        -> StatusVals
      [] type = "boolean"       -> BooleanVals
      [] type = "boolean?"      -> {True, False, Undefined}
      [] type = "number"        -> NumberVals
      [] type = "primitive"     -> PrimitiveVals
      [] type = "object"        -> ObjectVals
      [] type = "element"       -> ElementVals
      [] type = "pathItem"      -> PathItemVals
      [] type = "strings"       -> StringsVals
      [] type = "entries"       -> Entries({"n1", "n2"}, {"o1", "o3"})
      [] type = "pathEntries"   -> Entries({"/widgets", "users"}, {"o1", "p1"})
      [] type = "statusEntries" ->
            {s \in Entries({"200", "default"}, {"o1", "o3"}) : ForInOrder(s)}
      [] type = "elements"      -> SeqsUpTo({"o1", "o2", "o3"}, MaxBulk)

RECURSIVE ArgsOf(_)
ArgsOf(sig) ==
    IF sig = <<>> THEN {<<>>}
    ELSE { <<h>> \o t : h \in Dom(Head(sig)), t \in ArgsOf(Tail(sig)) }

-----------------------------------------------------------------------------
(* Errors *)

NoError == [type |-> "none", message |-> ""]

Error(type, message) == [type |-> type, message |-> message]

\* `${value}` of a template literal
Interpolate(v) ==
    IF v \in DOMAIN Heap THEN "[object Object]"
    ELSE IF Len(v) > 0 /\ SubSeq(v, 1, 1) = "#" THEN SubSeq(v, 2, Len(v))
    ELSE v

-----------------------------------------------------------------------------
(* Errors.ts: the helpers called by the 3.1 builders.  Each returns the    *)
(* error it throws, or NoError when it returns normally.                    *)

hasOwnProperty(object, field) == field \in DOMAIN object

\* Variant that never refuses a field
checkDuplicateNever(name, object, field) == NoError

checkDuplicate(name, object, field) ==
    IF hasOwnProperty(object, field)
    THEN Error("DuplicateError", name \o " already has field '" \o field \o "'")
    ELSE NoError

\* checkDuplicate of src/src/3.1/Errors.ts, called as
\* checkDuplicate(object, field, this.target[field]): throws when the current
\* value is truthy
checkDuplicateValue(object, field, value) ==
    IF value \notin Falsy
    THEN Error("DuplicateError",
               object \o " already has " \o field \o " '" \o Interpolate(value) \o "'")
    ELSE NoError

\* Variant of checkEmpty that accepts every array
checkEmptyNever(name, object, field, values) == NoError

checkEmpty(name, object, field, values) ==
    IF Len(values) = 0
    THEN Error("ValueError", name \o " cannot accept an empty '" \o field \o "' array")
    ELSE NoError

checkExclusive(name, object, fieldNew, fieldOld) ==
    IF hasOwnProperty(object, fieldOld)
    THEN Error("ExclusiveError",
               name \o " already has field '" \o fieldOld
                    \o "' so cannot add field '" \o fieldNew \o "'")
    ELSE NoError

checkMap(name, object, field, key) ==
    IF ~hasOwnProperty(object, field)
    THEN Error("TypeError", "Cannot read properties of undefined (reading 'has')")
    ELSE IF key \in DOMAIN object[field]
    THEN Error("DuplicateError",
               name \o " '" \o field \o "' map already has key '" \o key \o "'")
    ELSE NoError

\* new URL(value) accepts an absolute URL: a scheme (a letter, then letters,
\* digits, "+", "-", "."), a colon, and for the special scheme https a host
SchemeChars ==
    {"a","b","c","d","e","f","g","h","i","j","k","l","m","n","o","p","q","r","s",
     "t","u","v","w","x","y","z","0","1","2","3","4","5","6","7","8","9","+","-","."}

Letters ==
    {"a","b","c","d","e","f","g","h","i","j","k","l","m","n","o","p","q","r","s",
     "t","u","v","w","x","y","z"}

ParsesAsURL(value) ==
    \E c \in 2..Len(value) :
        /\ SubSeq(value, c, c) = ":"
        /\ SubSeq(value, 1, 1) \in Letters
        /\ \A i \in 1..(c - 1) : SubSeq(value, i, i) \in SchemeChars
        /\ \A i \in 1..Len(value) : SubSeq(value, i, i) # " "
        /\ Len(value) > c

checkURL(name, object, field, value) ==
    IF ParsesAsURL(value) THEN NoError
    ELSE Error("ValueError", name \o " '" \o field \o "' must be a valid URL")

isObject(object) == object # Null /\ object \in DOMAIN Heap

IsStringPrimitive(v) == v \notin DOMAIN Heap /\ (Len(v) = 0 \/ SubSeq(v, 1, 1) # "#")

\* Object.keys(v); throws for null and undefined (see ObjectKeysThrows)
ObjectKeys(v) ==
    IF v \in DOMAIN Heap THEN DOMAIN Heap[v]
    ELSE IF IsStringPrimitive(v) THEN {ToString(i - 1) : i \in 1..Len(v)}
    ELSE {}

ObjectKeysThrows(v) == v \in {Null, Undefined}

\* v[key]
GetProp(v, key) ==
    IF v \in DOMAIN Heap
    THEN IF key \in DOMAIN Heap[v] THEN Heap[v][key] ELSE Undefined
    ELSE IF IsStringPrimitive(v)
    THEN IF \E i \in 1..Len(v) : ToString(i - 1) = key
         THEN LET i == CHOOSE j \in 1..Len(v) : ToString(j - 1) = key
              IN  SubSeq(v, i, i)
         ELSE Undefined
    ELSE Undefined

\* Variant of deepEqual that compares identities (===)
deepEqualIdentity(object1, object2) == object1 = object2

RECURSIVE deepEqual(_, _)
deepEqual(object1, object2) ==
    LET keys1 == ObjectKeys(object1)
        keys2 == ObjectKeys(object2)
    IN  IF Cardinality(keys1) # Cardinality(keys2) THEN FALSE
        ELSE \A key \in keys1 :
                LET val1 == GetProp(object1, key)
                    val2 == GetProp(object2, key)
                IN  IF isObject(val1) /\ isObject(val2)
                    THEN deepEqual(val1, val2)
                    ELSE val1 = val2

\* array.forEach(item => { if (deepEqual(item, value)) throw ... }), from index i
RECURSIVE ScanArray(_, _, _, _, _)
ScanArray(name, field, array, value, i) ==
    IF i > Len(array) THEN NoError
    ELSE IF ObjectKeysThrows(array[i]) \/ ObjectKeysThrows(value)
    THEN Error("TypeError", "Cannot convert undefined or null to object")
    ELSE IF deepEqual(array[i], value)
    THEN Error("DuplicateError",
               name \o " '" \o field \o "' array already has value '"
                    \o Interpolate(value) \o "'")
    ELSE ScanArray(name, field, array, value, i + 1)

checkArray(name, object, field, value) ==
    IF ~hasOwnProperty(object, field)
    THEN Error("TypeError", "Cannot read properties of undefined (reading 'forEach')")
    ELSE ScanArray(name, field, object[field], value, 1)

-----------------------------------------------------------------------------
(* Support methods of the 3.0 builders *)

OPENAPI_VERSION == "3.0.3"

startsWith(s, prefix) ==
    Len(s) >= Len(prefix) /\ SubSeq(s, 1, Len(prefix)) = prefix

validateMediaType(context, mediaType) == NoError

validatePath(context, path) ==
    IF ~startsWith(path, "/")
    THEN Error("Error", context \o ": Path '" \o path \o "' does not start with a slash")
    ELSE NoError

validateRef(context, ref) == NoError

validateUrl(context, url) == NoError

-----------------------------------------------------------------------------
(* Statement forms of the method bodies *)

Stmt(op, name, f, g, i, j, th, el) ==
    [op |-> op, name |-> name, f |-> f, g |-> g, i |-> i, j |-> j, th |-> th, el |-> el]

\* A property name: a literal, an argument, or a property of an argument
Lit(s) == [k |-> "lit", s |-> s, i |-> 0]

Arg(i) == [k |-> "arg", s |-> "", i |-> i]

ArgProp(i, p) == [k |-> "prop", s |-> p, i |-> i]

\* Right-hand sides
FromArg(i) == [k |-> "arg", s |-> "", i |-> i]

ArgOrUndefined(i) == [k |-> "argOrUndefined", s |-> "", i |-> i]

Const(s) == [k |-> "const", s |-> s, i |-> 0]

NewMap == [k |-> "empty", s |-> "Map", i |-> 0]

NewObj == [k |-> "empty", s |-> "Object", i |-> 0]

NewArr == [k |-> "empty", s |-> "Array", i |-> 0]

\* Conditions
Present(f, neg) == [c |-> "present", f |-> f, i |-> 0, neg |-> neg]

Truthy(f, neg) == [c |-> "truthy", f |-> f, i |-> 0, neg |-> neg]

Lookup(f, i, neg) == [c |-> "lookup", f |-> f, i |-> i, neg |-> neg]

ArgTruthy(i, neg) == [c |-> "arg", f |-> "", i |-> i, neg |-> neg]

ArgIs(i, s, neg) == [c |-> "argIs", f |-> s, i |-> i, neg |-> neg]

ArgDefined(i, neg) == [c |-> "argDefined", f |-> "", i |-> i, neg |-> neg]

StartsWith(i, s, neg) == [c |-> "startsWith", f |-> s, i |-> i, neg |-> neg]

\* Statements
CheckDuplicate(name, ref) == Stmt("checkDuplicate", name, ref, "", 0, 0, <<>>, <<>>)

CheckDuplicateIn(name, container, ref) ==
    Stmt("checkDuplicateIn", name, ref, container, 0, 0, <<>>, <<>>)

CheckExclusive(name, fieldNew, fieldOld) ==
    Stmt("checkExclusive", name, fieldNew, fieldOld, 0, 0, <<>>, <<>>)

CheckURL(name, field, i) == Stmt("checkURL", name, field, "", i, 0, <<>>, <<>>)

CheckEmpty(name, field, i) == Stmt("checkEmpty", name, field, "", i, 0, <<>>, <<>>)

CheckMap(name, field, i) == Stmt("checkMap", name, field, "", i, 0, <<>>, <<>>)

CheckArray(name, field, i) == Stmt("checkArray", name, field, "", i, 0, <<>>, <<>>)

ValidateUrl(context, i) == Stmt("validateUrl", context, "", "", i, 0, <<>>, <<>>)

ValidatePath(context, i) == Stmt("validatePath", context, "", "", i, 0, <<>>, <<>>)

ValidateRef(context, i) == Stmt("validateRef", context, "", "", i, 0, <<>>, <<>>)

ValidateMediaType(context, i) ==
    Stmt("validateMediaType", context, "", "", i, 0, <<>>, <<>>)

Throw(type, before, i, after) == Stmt("throw", type, before, after, i, 0, <<>>, <<>>)

If(cond, th, el) == Stmt("if", "", cond, "", 0, 0, th, el)

NewTarget(fields) == Stmt("newTarget", "", fields, "", 0, 0, <<>>, <<>>)

Assign(field, src) == Stmt("assign", "", field, src, 0, 0, <<>>, <<>>)

AssignKey(ref, i) == Stmt("assignKey", "", ref, "", i, 0, <<>>, <<>>)

MapSet(field, i, j) == Stmt("mapSet", "", field, "", i, j, <<>>, <<>>)

ObjSet(field, ref, j) == Stmt("objSet", "", field, ref, 0, j, <<>>, <<>>)

Push(field, i) == Stmt("push", "", field, "", i, 0, <<>>, <<>>)

ForEachEntry(i, method) == Stmt("forEachEntry", method, "", "", i, 0, <<>>, <<>>)

ForEachValue(i, method) == Stmt("forEachValue", method, "", "", i, 0, <<>>, <<>>)

ForEachElement(i, method) == Stmt("forEachElement", method, "", "", i, 0, <<>>, <<>>)

Delegate(method) == Stmt("delegate", method, "", "", 0, 0, <<>>, <<>>)

\* Variant of ReturnTarget: return { ...this.target }
ReturnCopy == Stmt("return", "", "copy", "", 0, 0, <<>>, <<>>)

\* return this.target
ReturnTarget == Stmt("return", "", "this.target", "", 0, 0, <<>>, <<>>)

\* kind: "ctor", "setter" (single-valued field), "keyed" (adds one key to a
\* keyed collection), "list" (appends to a list), "bulk" or "build"
Method(k, sig, body) == [kind |-> k, sig |-> sig, body |-> body]

-----------------------------------------------------------------------------
(* The builder classes *)

\* 3.1 CallbackObjectBuilder (src/src/3.1/Builders.ts lines 55-73)
CallbackObjectBuilder31 ==
    "constructor" :> Method("ctor", <<>>,
        <<NewTarget(<<>>)>>)
    @@ "callback" :> Method("keyed", <<"name", "object">>,
        <<CheckDuplicate("CallbackObject", Arg(1)),
          AssignKey(Arg(1), 2)>>)
    @@ "build" :> Method("build", <<>>,
        <<ReturnTarget>>)

\* 3.1 ComponentsObjectBuilder (src/src/3.1/Builders.ts lines 80-272)
ComponentsObjectBuilder31 ==
    "constructor" :> Method("ctor", <<>>,
        <<NewTarget(<<>>)>>)
    @@ "callback" :> Method("keyed", <<"name", "object">>,
        <<If(Present("callbacks", FALSE), <<CheckMap("ComponentsObject", "callbacks", 1)>>, <<Assign("callbacks", NewMap)>>),
          MapSet("callbacks", 1, 2)>>)
    @@ "callbacks" :> Method("bulk", <<"entries">>,
        <<ForEachEntry(1, "callback")>>)
    @@ "example" :> Method("keyed", <<"name", "object">>,
        <<If(Present("examples", FALSE), <<CheckMap("ComponentsObject", "examples", 1)>>, <<Assign("examples", NewMap)>>),
          MapSet("examples", 1, 2)>>)
    @@ "examples" :> Method("bulk", <<"entries">>,
        <<ForEachEntry(1, "example")>>)
    @@ "header" :> Method("keyed", <<"name", "object">>,
        <<If(Present("headers", FALSE), <<CheckMap("ComponentsObject", "headers", 1)>>, <<Assign("headers", NewMap)>>),
          MapSet("headers", 1, 2)>>)
    @@ "headers" :> Method("bulk", <<"entries">>,
        <<ForEachEntry(1, "header")>>)
    @@ "link" :> Method("keyed", <<"name", "object">>,
        <<If(Present("links", FALSE), <<CheckMap("ComponentsObject", "links", 1)>>, <<Assign("links", NewMap)>>),
          MapSet("links", 1, 2)>>)
    @@ "links" :> Method("bulk", <<"entries">>,
        <<ForEachEntry(1, "link")>>)
    @@ "parameter" :> Method("keyed", <<"name", "object">>,
        <<If(Present("parameters", FALSE), <<CheckMap("ComponentsObject", "parameters", 1)>>, <<Assign("parameters", NewMap)>>),
          MapSet("parameters", 1, 2)>>)
    @@ "parameters" :> Method("bulk", <<"entries">>,
        <<ForEachEntry(1, "parameter")>>)
    @@ "pathItem" :> Method("keyed", <<"name", "object">>,
        <<If(Present("pathItems", FALSE), <<CheckMap("ComponentsObject", "pathItems", 1)>>, <<Assign("pathItems", NewMap)>>),
          MapSet("pathItems", 1, 2)>>)
    @@ "pathItems" :> Method("bulk", <<"entries">>,
        <<ForEachEntry(1, "pathItem")>>)
    @@ "requestBody" :> Method("keyed", <<"name", "object">>,
        <<If(Present("requestBodies", FALSE), <<CheckMap("ComponentsObject", "requestBodies", 1)>>, <<Assign("requestBodies", NewMap)>>),
          MapSet("requestBodies", 1, 2)>>)
    @@ "requestBodies" :> Method("bulk", <<"entries">>,
        <<ForEachEntry(1, "requestBody")>>)
    @@ "response" :> Method("keyed", <<"name", "object">>,
        <<If(Present("responses", FALSE), <<CheckMap("ComponentsObject", "responses", 1)>>, <<Assign("responses", NewMap)>>),
          MapSet("responses", 1, 2)>>)
    @@ "responses" :> Method("bulk", <<"entries">>,
        <<ForEachEntry(1, "response")>>)
    @@ "schema" :> Method("keyed", <<"name", "object">>,
        <<If(Present("schemas", FALSE), <<CheckMap("ComponentsObject", "schemas", 1)>>, <<Assign("schemas", NewMap)>>),
          MapSet("schemas", 1, 2)>>)
    @@ "schemas" :> Method("bulk", <<"entries">>,
        <<ForEachEntry(1, "schema")>>)
    @@ "securityScheme" :> Method("keyed", <<"name", "object">>,
        <<If(Present("securitySchemes", FALSE), <<CheckMap("ComponentsObject", "securitySchemes", 1)>>, <<Assign("securitySchemes", NewMap)>>),
          MapSet("securitySchemes", 1, 2)>>)
    @@ "securitySchemes" :> Method("bulk", <<"entries">>,
        <<ForEachEntry(1, "securityScheme")>>)
    @@ "build" :> Method("build", <<>>,
        <<ReturnTarget>>)

\* 3.1 ContactObjectBuilder (src/src/3.1/Builders.ts lines 277-308)
ContactObjectBuilder31 ==
    "constructor" :> Method("ctor", <<>>,
        <<NewTarget(<<>>)>>)
    @@ "email" :> Method("setter", <<"string">>,
        <<CheckDuplicate("ContactObject", Lit("email")),
          Assign("email", FromArg(1))>>)
    @@ "name" :> Method("setter", <<"string">>,
        <<CheckDuplicate("ContactObject", Lit("name")),
          Assign("name", FromArg(1))>>)
    @@ "url" :> Method("setter", <<"url">>,
        <<CheckDuplicate("ContactObject", Lit("url")),
          CheckURL("ContactObject", "url", 1),
          Assign("url", FromArg(1))>>)
    @@ "build" :> Method("build", <<>>,
        <<ReturnTarget>>)

\* 3.1 ExampleObjectBuilder (src/src/3.1/Builders.ts lines 314-352)
ExampleObjectBuilder31 ==
    "constructor" :> Method("ctor", <<>>,
        <<NewTarget(<<>>)>>)
    @@ "description" :> Method("setter", <<"string">>,
        <<CheckDuplicate("ExampleObject", Lit("description")),
          Assign("description", FromArg(1))>>)
    @@ "externalValue" :> Method("setter", <<"string">>,
        <<CheckDuplicate("ExampleObject", Lit("externalValue")),
          CheckExclusive("ExampleObject", "externalValue", "value"),
          Assign("externalValue", FromArg(1))>>)
    @@ "summary" :> Method("setter", <<"string">>,
        <<CheckDuplicate("ExampleObject", Lit("summary")),
          Assign("summary", FromArg(1))>>)
    @@ "value" :> Method("setter", <<"object">>,
        <<CheckDuplicate("ExampleObject", Lit("value")),
          CheckExclusive("ExampleObject", "value", "externalValue"),
          Assign("value", FromArg(1))>>)
    @@ "build" :> Method("build", <<>>,
        <<ReturnTarget>>)

\* 3.1 ExternalDocsObjectBuilder (src/src/3.1/Builders.ts lines 358-379)
ExternalDocsObjectBuilder31 ==
    "constructor" :> Method("ctor", <<"url">>,
        <<NewTarget(<<<<"url", FromArg(1)>>>>),
          CheckURL("ExternalDocsObject", "url", 1)>>)
    @@ "description" :> Method("setter", <<"string">>,
        <<CheckDuplicate("ExternalDocsObject", Lit("description")),
          Assign("description", FromArg(1))>>)
    @@ "build" :> Method("build", <<>>,
        <<ReturnTarget>>)

\* 3.1 HeaderObjectBuilder (src/src/3.1/Builders.ts lines 385-464)
HeaderObjectBuilder31 ==
    "constructor" :> Method("ctor", <<>>,
        <<NewTarget(<<<<"in", Const("path")>>, <<"name", Const("-----")>>>>)>>)
    @@ "allowEmptyValue" :> Method("setter", <<"boolean">>,
        <<CheckDuplicate("HeaderObject", Lit("allowEmptyValue")),
          Assign("allowEmptyValue", FromArg(1))>>)
    @@ "allowReserved" :> Method("setter", <<"boolean">>,
        <<CheckDuplicate("HeaderObject", Lit("allowReserved")),
          Assign("allowReserved", FromArg(1))>>)
    @@ "deprecated" :> Method("setter", <<"boolean">>,
        <<CheckDuplicate("HeaderObject", Lit("deprecated")),
          Assign("deprecated", FromArg(1))>>)
    @@ "description" :> Method("setter", <<"string">>,
        <<CheckDuplicate("HeaderObject", Lit("description")),
          Assign("description", FromArg(1))>>)
    @@ "example" :> Method("setter", <<"object">>,
        <<CheckDuplicate("HeaderObject", Lit("example")),
          Assign("example", FromArg(1))>>)
    @@ "examples" :> Method("keyed", <<"name", "object">>,
        <<If(Present("examples", FALSE), <<CheckMap("HeaderObject", "examples", 1)>>, <<Assign("examples", NewMap)>>),
          MapSet("examples", 1, 2)>>)
    @@ "explode" :> Method("setter", <<"boolean">>,
        <<CheckDuplicate("HeaderObject", Lit("explode")),
          Assign("explode", FromArg(1))>>)
    @@ "required" :> Method("setter", <<"boolean">>,
        <<CheckDuplicate("HeaderObject", Lit("required")),
          Assign("required", FromArg(1))>>)
    @@ "schema" :> Method("setter", <<"object">>,
        <<CheckDuplicate("HeaderObject", Lit("schema")),
          Assign("schema", FromArg(1))>>)
    @@ "style" :> Method("setter", <<"string">>,
        <<CheckDuplicate("HeaderObject", Lit("style")),
          Assign("style", FromArg(1))>>)
    @@ "build" :> Method("build", <<>>,
        <<ReturnTarget>>)

\* 3.1 InfoObjectBuilder (src/src/3.1/Builders.ts lines 469-515)
InfoObjectBuilder31 ==
    "constructor" :> Method("ctor", <<"string", "string">>,
        <<NewTarget(<<<<"title", FromArg(1)>>, <<"version", FromArg(2)>>>>)>>)
    @@ "contact" :> Method("setter", <<"object">>,
        <<CheckDuplicate("InfoObject", Lit("contact")),
          Assign("contact", FromArg(1))>>)
    @@ "description" :> Method("setter", <<"string">>,
        <<CheckDuplicate("InfoObject", Lit("description")),
          Assign("description", FromArg(1))>>)
    @@ "license" :> Method("setter", <<"object">>,
        <<CheckDuplicate("InfoObject", Lit("license")),
          Assign("license", FromArg(1))>>)
    @@ "summary" :> Method("setter", <<"string">>,
        <<CheckDuplicate("InfoObject", Lit("summary")),
          Assign("summary", FromArg(1))>>)
    @@ "termsOfService" :> Method("setter", <<"url">>,
        <<CheckDuplicate("InfoObject", Lit("termsOfService")),
          CheckURL("InfoObject", "termsOfService", 1),
          Assign("termsOfService", FromArg(1))>>)
    @@ "build" :> Method("build", <<>>,
        <<ReturnTarget>>)

\* Variant of LicenseObjectBuilder whose url() validates the value first
LicenseObjectBuilderValueFirst ==
    "constructor" :> Method("ctor", <<"string">>,
        <<NewTarget(<<<<"name", FromArg(1)>>>>)>>)
    @@ "identifier" :> Method("setter", <<"string">>,
        <<CheckDuplicate("LicenseObject", Lit("identifier")),
          CheckExclusive("LicenseObject", "identifier", "url"),
          Assign("identifier", FromArg(1))>>)
    @@ "url" :> Method("setter", <<"url">>,
        <<CheckURL("LicenseObject", "url", 1),
          CheckDuplicate("LicenseObject", Lit("url")),
          CheckExclusive("LicenseObject", "url", "identifier"),
          Assign("url", FromArg(1))>>)
    @@ "build" :> Method("build", <<>>,
        <<ReturnTarget>>)

\* 3.1 LicenseObjectBuilder (src/src/3.1/Builders.ts lines 520-549)
LicenseObjectBuilder31 ==
    "constructor" :> Method("ctor", <<"string">>,
        <<NewTarget(<<<<"name", FromArg(1)>>>>)>>)
    @@ "identifier" :> Method("setter", <<"string">>,
        <<CheckDuplicate("LicenseObject", Lit("identifier")),
          CheckExclusive("LicenseObject", "identifier", "url"),
          Assign("identifier", FromArg(1))>>)
    @@ "url" :> Method("setter", <<"url">>,
        <<CheckDuplicate("LicenseObject", Lit("url")),
          CheckExclusive("LicenseObject", "url", "identifier"),
          CheckURL("LicenseObject", "url", 1),
          Assign("url", FromArg(1))>>)
    @@ "build" :> Method("build", <<>>,
        <<ReturnTarget>>)

\* 3.1 LinkObjectBuilder (src/src/3.1/Builders.ts lines 555-609)
LinkObjectBuilder31 ==
    "constructor" :> Method("ctor", <<>>,
        <<NewTarget(<<>>)>>)
    @@ "description" :> Method("setter", <<"string">>,
        <<CheckDuplicate("LinkObject", Lit("description")),
          Assign("description", FromArg(1))>>)
    @@ "operationId" :> Method("setter", <<"string">>,
        <<CheckDuplicate("LinkObject", Lit("operationId")),
          CheckExclusive("LinkObject", "operationId", "operationRef"),
          Assign("operationId", FromArg(1))>>)
    @@ "operationRef" :> Method("setter", <<"string">>,
        <<CheckDuplicate("LinkObject", Lit("operationRef")),
          CheckExclusive("LinkObject", "operationRef", "operationId"),
          Assign("operationRef", FromArg(1))>>)
    @@ "parameter" :> Method("keyed", <<"name", "object">>,
        <<If(Present("parameters", FALSE), <<CheckMap("LinkObject", "parameters", 1)>>, <<Assign("parameters", NewMap)>>),
          MapSet("parameters", 1, 2)>>)
    @@ "requestBody" :> Method("setter", <<"object">>,
        <<CheckDuplicate("LinkObject", Lit("requestBody")),
          Assign("requestBody", FromArg(1))>>)
    @@ "server" :> Method("setter", <<"object">>,
        <<CheckDuplicate("LinkObject", Lit("server")),
          Assign("server", FromArg(1))>>)
    @@ "build" :> Method("build", <<>>,
        <<ReturnTarget>>)

\* 3.1 MediaTypeObjectBuilder (src/src/3.1/Builders.ts lines 615-653)
MediaTypeObjectBuilder31 ==
    "constructor" :> Method("ctor", <<>>,
        <<NewTarget(<<>>)>>)
    @@ "example" :> Method("setter", <<"object">>,
        <<CheckDuplicate("MediaTypeObject", Lit("example")),
          CheckExclusive("MediaTypeObject", "example", "examples"),
          Assign("example", FromArg(1))>>)
    @@ "examples" :> Method("keyed", <<"name", "object">>,
        <<CheckDuplicate("MediaTypeObject", Lit("examples")),
          CheckExclusive("MediaTypeObject", "examles", "example"),
          If(Present("examples", FALSE), <<CheckMap("ParameterObject", "examples", 1)>>, <<Assign("examples", NewMap)>>),
          MapSet("examples", 1, 2)>>)
    @@ "schema" :> Method("setter", <<"object">>,
        <<CheckDuplicate("MediaTypeObject", Lit("schema")),
          Assign("schema", FromArg(1))>>)
    @@ "build" :> Method("build", <<>>,
        <<ReturnTarget>>)

\* 3.1 OpenApiObjectBuilder (src/src/3.1/Builders.ts lines 659-758)
OpenApiObjectBuilder31 ==
    "constructor" :> Method("ctor", <<"object">>,
        <<NewTarget(<<<<"info", FromArg(1)>>, <<"openapi", Const("3.1.0")>>>>)>>)
    @@ "components" :> Method("setter", <<"object">>,
        <<CheckDuplicate("OpenApiObject", Lit("components")),
          Assign("components", FromArg(1))>>)
    @@ "externalDocs" :> Method("setter", <<"object">>,
        <<CheckDuplicate("OpenApiObject", Lit("externalDocs")),
          Assign("externalDocs", FromArg(1))>>)
    @@ "jsonSchemaDialect" :> Method("setter", <<"string">>,
        <<CheckDuplicate("OpenApiObject", Lit("jsonSchemaDialect")),
          Assign("jsonSchemaDialect", FromArg(1))>>)
    @@ "path" :> Method("keyed", <<"path", "pathItem">>,
        <<If(Present("paths", FALSE), <<CheckDuplicateIn("OpenApiObject", "paths", Arg(1))>>, <<Assign("paths", NewObj)>>),
          ObjSet("paths", Arg(1), 2)>>)
    @@ "paths" :> Method("bulk", <<"pathEntries">>,
        <<ForEachEntry(1, "path")>>)
    @@ "security" :> Method("list", <<"element">>,
        <<If(Present("security", FALSE), <<CheckArray("OpenApiProject", "security", 1)>>, <<Assign("security", NewArr)>>),
          Push("security", 1)>>)
    @@ "server" :> Method("list", <<"element">>,
        <<If(Present("servers", FALSE), <<CheckArray("OpenApiObject", "servers", 1)>>, <<Assign("servers", NewArr)>>),
          Push("servers", 1)>>)
    @@ "servers" :> Method("bulk", <<"elements">>,
        <<ForEachElement(1, "server")>>)
    @@ "tag" :> Method("list", <<"element">>,
        <<If(Present("tags", FALSE), <<CheckArray("OpenApiProject", "tags", 1)>>, <<Assign("tags", NewArr)>>),
          Push("tags", 1)>>)
    @@ "tags" :> Method("bulk", <<"elements">>,
        <<ForEachElement(1, "tag")>>)
    @@ "build" :> Method("build", <<>>,
        <<ReturnTarget>>)

\* 3.1 OperationObjectBuilder (src/src/3.1/Builders.ts lines 764-871)
OperationObjectBuilder31 ==
    "constructor" :> Method("ctor", <<>>,
        <<NewTarget(<<>>)>>)
    @@ "callback" :> Method("keyed", <<"name", "object">>,
        <<If(Present("callbacks", FALSE), <<CheckMap("OperationObject", "callbacks", 1)>>, <<Assign("callbacks", NewMap)>>),
          MapSet("callbacks", 1, 2)>>)
    @@ "deprecated" :> Method("setter", <<"boolean">>,
        <<CheckDuplicate("OperationObject", Lit("deprecated")),
          Assign("deprecated", FromArg(1))>>)
    @@ "description" :> Method("setter", <<"string">>,
        <<CheckDuplicate("OperationObject", Lit("description")),
          Assign("description", FromArg(1))>>)
    @@ "externalDocs" :> Method("setter", <<"object">>,
        <<CheckDuplicate("OperationObject", Lit("externalDocs")),
          Assign("externalDocs", FromArg(1))>>)
    @@ "operationId" :> Method("setter", <<"string">>,
        <<CheckDuplicate("OperationObject", Lit("operationId")),
          Assign("operationId", FromArg(1))>>)
    @@ "parameter" :> Method("list", <<"element">>,
        <<If(Present("parameters", TRUE), <<Assign("parameters", NewArr)>>, <<>>),
          Push("parameters", 1)>>)
    @@ "parameters" :> Method("bulk", <<"entries">>,
        <<ForEachValue(1, "parameter")>>)
    @@ "requestBody" :> Method("setter", <<"object">>,
        <<CheckDuplicate("OperationObject", Lit("requestBody")),
          Assign("requestBody", FromArg(1))>>)
    @@ "responses" :> Method("setter", <<"object">>,
        <<CheckDuplicate("OperationObject", Lit("responses")),
          Assign("responses", FromArg(1))>>)
    @@ "security" :> Method("setter", <<"object">>,
        <<CheckDuplicate("OperationObject", Lit("security")),
          Assign("security", FromArg(1))>>)
    @@ "server" :> Method("list", <<"element">>,
        <<If(Present("servers", TRUE), <<Assign("servers", NewArr)>>, <<>>),
          Push("servers", 1)>>)
    @@ "summary" :> Method("setter", <<"string">>,
        <<CheckDuplicate("OperationObject", Lit("summary")),
          Assign("summary", FromArg(1))>>)
    @@ "tag" :> Method("list", <<"element">>,
        <<If(Present("tags", TRUE), <<Assign("tags", NewArr)>>, <<>>),
          Push("tags", 1)>>)
    @@ "build" :> Method("build", <<>>,
        <<ReturnTarget>>)

\* 3.1 ParameterObjectBuilder (src/src/3.1/Builders.ts lines 877-959)
ParameterObjectBuilder31 ==
    "constructor" :> Method("ctor", <<"string", "string">>,
        <<NewTarget(<<<<"in", FromArg(2)>>, <<"name", FromArg(1)>>>>)>>)
    @@ "allowEmptyValue" :> Method("setter", <<"boolean">>,
        <<CheckDuplicate("ParameterObject", Lit("allowEmptyValue")),
          Assign("allowEmptyValue", FromArg(1))>>)
    @@ "allowReserved" :> Method("setter", <<"boolean">>,
        <<CheckDuplicate("ParameterObject", Lit("allowReserved")),
          Assign("allowReserved", FromArg(1))>>)
    @@ "deprecated" :> Method("setter", <<"boolean">>,
        <<CheckDuplicate("ParameterObject", Lit("deprecated")),
          Assign("deprecated", FromArg(1))>>)
    @@ "description" :> Method("setter", <<"string">>,
        <<CheckDuplicate("ParameterObject", Lit("description")),
          Assign("description", FromArg(1))>>)
    @@ "example" :> Method("setter", <<"object">>,
        <<CheckDuplicate("ParameterObject", Lit("example")),
          CheckExclusive("ParameterObject", "example", "examples"),
          Assign("example", FromArg(1))>>)
    @@ "examples" :> Method("keyed", <<"name", "object">>,
        <<CheckDuplicate("ParameterObject", Lit("examples")),
          CheckExclusive("ParameterObject", "examples", "example"),
          If(Present("examples", FALSE), <<CheckMap("ParameterObject", "examples", 1)>>, <<Assign("examples", NewMap)>>),
          MapSet("examples", 1, 2)>>)
    @@ "explode" :> Method("setter", <<"boolean">>,
        <<CheckDuplicate("ParameterObject", Lit("explode")),
          Assign("explode", FromArg(1))>>)
    @@ "required" :> Method("setter", <<"boolean">>,
        <<CheckDuplicate("ParameterObject", Lit("required")),
          Assign("required", FromArg(1))>>)
    @@ "schema" :> Method("setter", <<"object">>,
        <<CheckDuplicate("ParameterObject", Lit("schema")),
          Assign("schema", FromArg(1))>>)
    @@ "style" :> Method("setter", <<"string">>,
        <<CheckDuplicate("ParameterObject", Lit("style")),
          Assign("style", FromArg(1))>>)
    @@ "build" :> Method("build", <<>>,
        <<ReturnTarget>>)

\* 3.1 ParametersObjectBuilder (src/src/3.1/Builders.ts lines 965-983)
ParametersObjectBuilder31 ==
    "constructor" :> Method("ctor", <<>>,
        <<NewTarget(<<>>)>>)
    @@ "parameter" :> Method("keyed", <<"object">>,
        <<CheckDuplicate("ParametersObject", ArgProp(1, "name")),
          AssignKey(ArgProp(1, "name"), 1)>>)
    @@ "build" :> Method("build", <<>>,
        <<ReturnTarget>>)

\* 3.1 PathItemObjectBuilder (src/src/3.1/Builders.ts lines 989-1085)
PathItemObjectBuilder31 ==
    "constructor" :> Method("ctor", <<>>,
        <<NewTarget(<<>>)>>)
    @@ "$ref" :> Method("setter", <<"string">>,
        <<CheckDuplicate("PathItemObject", Lit("$ref")),
          Assign("$ref", FromArg(1))>>)
    @@ "delete" :> Method("setter", <<"object">>,
        <<CheckDuplicate("PathItemObject", Lit("delete")),
          Assign("delete", FromArg(1))>>)
    @@ "description" :> Method("setter", <<"string">>,
        <<CheckDuplicate("PathItemObject", Lit("description")),
          Assign("description", FromArg(1))>>)
    @@ "get" :> Method("setter", <<"object">>,
        <<CheckDuplicate("PathItemObject", Lit("get")),
          Assign("get", FromArg(1))>>)
    @@ "head" :> Method("setter", <<"object">>,
        <<CheckDuplicate("PathItemObject", Lit("head")),
          Assign("head", FromArg(1))>>)
    @@ "options" :> Method("setter", <<"object">>,
        <<CheckDuplicate("PathItemObject", Lit("options")),
          Assign("options", FromArg(1))>>)
    @@ "parameter" :> Method("list", <<"element">>,
        <<If(Present("parameters", TRUE), <<Assign("parameters", NewArr)>>, <<>>),
          Push("parameters", 1)>>)
    @@ "patch" :> Method("setter", <<"object">>,
        <<CheckDuplicate("PathItemObject", Lit("patch")),
          Assign("patch", FromArg(1))>>)
    @@ "post" :> Method("setter", <<"object">>,
        <<CheckDuplicate("PathItemObject", Lit("post")),
          Assign("post", FromArg(1))>>)
    @@ "put" :> Method("setter", <<"object">>,
        <<CheckDuplicate("PathItemObject", Lit("put")),
          Assign("put", FromArg(1))>>)
    @@ "server" :> Method("list", <<"element">>,
        <<If(Present("servers", TRUE), <<Assign("servers", NewArr)>>, <<>>),
          Push("servers", 1)>>)
    @@ "summary" :> Method("setter", <<"string">>,
        <<CheckDuplicate("PathItemObject", Lit("summary")),
          Assign("summary", FromArg(1))>>)
    @@ "trace" :> Method("setter", <<"object">>,
        <<CheckDuplicate("PathItemObject", Lit("trace")),
          Assign("trace", FromArg(1))>>)
    @@ "build" :> Method("build", <<>>,
        <<ReturnTarget>>)

\* Variant of PathsObjectBuilder whose build() marks the draft as built
PathsObjectBuilderBuildWrites ==
    "constructor" :> Method("ctor", <<>>,
        <<NewTarget(<<>>)>>)
    @@ "pathItem" :> Method("keyed", <<"path", "object">>,
        <<CheckDuplicate("PathsObject", Arg(1)),
          If(StartsWith(1, "/", TRUE), <<Throw("ValueError", "Path '", 1, "' does not start with a slash")>>, <<>>),
          AssignKey(Arg(1), 2)>>)
    @@ "build" :> Method("build", <<>>,
        <<Assign("built", Const(True)),
          ReturnTarget>>)

\* 3.1 PathsObjectBuilder (src/src/3.1/Builders.ts lines 1091-1112)
PathsObjectBuilder31 ==
    "constructor" :> Method("ctor", <<>>,
        <<NewTarget(<<>>)>>)
    @@ "pathItem" :> Method("keyed", <<"path", "object">>,
        <<CheckDuplicate("PathsObject", Arg(1)),
          If(StartsWith(1, "/", TRUE), <<Throw("ValueError", "Path '", 1, "' does not start with a slash")>>, <<>>),
          AssignKey(Arg(1), 2)>>)
    @@ "build" :> Method("build", <<>>,
        <<ReturnTarget>>)

\* 3.1 ReferenceObjectBuilder (src/src/3.1/Builders.ts lines 1118-1144)
ReferenceObjectBuilder31 ==
    "constructor" :> Method("ctor", <<"string">>,
        <<NewTarget(<<<<"$ref", FromArg(1)>>>>)>>)
    @@ "description" :> Method("setter", <<"string">>,
        <<CheckDuplicate("ReferenceObject", Lit("description")),
          Assign("description", FromArg(1))>>)
    @@ "summary" :> Method("setter", <<"string">>,
        <<CheckDuplicate("ReferenceObject", Lit("summary")),
          Assign("summary", FromArg(1))>>)
    @@ "build" :> Method("build", <<>>,
        <<ReturnTarget>>)

\* 3.1 RequestBodyObjectBuilder (src/src/3.1/Builders.ts lines 1150-1183)
RequestBodyObjectBuilder31 ==
    "constructor" :> Method("ctor", <<>>,
        <<NewTarget(<<<<"content", NewMap>>>>)>>)
    @@ "content" :> Method("keyed", <<"name", "object">>,
        <<CheckMap("RequestBodyObject", "content", 1),
          MapSet("content", 1, 2)>>)
    @@ "description" :> Method("setter", <<"string">>,
        <<CheckDuplicate("RequestBodyObject", Lit("description")),
          Assign("description", FromArg(1))>>)
    @@ "required" :> Method("setter", <<"boolean">>,
        <<CheckDuplicate("RequestBodyObject", Lit("required")),
          Assign("required", FromArg(1))>>)
    @@ "build" :> Method("build", <<>>,
        <<ReturnTarget>>)

\* 3.1 ResponseObjectBuilder (src/src/3.1/Builders.ts lines 1189-1239)
ResponseObjectBuilder31 ==
    "constructor" :> Method("ctor", <<"string">>,
        <<NewTarget(<<<<"description", FromArg(1)>>>>)>>)
    @@ "content" :> Method("keyed", <<"name", "object">>,
        <<If(Present("content", TRUE), <<Assign("content", NewMap)>>, <<CheckMap("ResponseObject", "content", 1)>>),
          MapSet("content", 1, 2)>>)
    @@ "description" :> Method("setter", <<"string">>,
        <<CheckDuplicate("ResponseObject", Lit("description")),
          Assign("description", FromArg(1))>>)
    @@ "header" :> Method("keyed", <<"name", "object">>,
        <<If(Present("headers", TRUE), <<Assign("headers", NewMap)>>, <<CheckMap("ResponseObject", "headers", 1)>>),
          MapSet("headers", 1, 2)>>)
    @@ "link" :> Method("keyed", <<"name", "object">>,
        <<If(Present("links", TRUE), <<Assign("links", NewMap)>>, <<CheckMap("ResponseObject", "links", 1)>>),
          MapSet("links", 1, 2)>>)
    @@ "build" :> Method("build", <<>>,
        <<ReturnTarget>>)

\* 3.1 ResponsesObjectBuilder (src/src/3.1/Builders.ts lines 1245-1270)
ResponsesObjectBuilder31 ==
    "constructor" :> Method("ctor", <<>>,
        <<NewTarget(<<>>)>>)
    @@ "default" :> Method("setter", <<"object">>,
        <<CheckDuplicate("ResponsesObject", Lit("default")),
          Assign("default", FromArg(1))>>)
    @@ "statusCode" :> Method("keyed", <<"status", "object">>,
        <<CheckDuplicate("ResponsesObject", Lit("statusCode")),
          AssignKey(Arg(1), 2)>>)
    @@ "build" :> Method("build", <<>>,
        <<ReturnTarget>>)

\* 3.1 SchemaObjectBuilder (src/src/3.1/Builders.ts lines 1276-1368)
SchemaObjectBuilder31 ==
    "constructor" :> Method("ctor", <<"string">>,
        <<NewTarget(<<<<"type", FromArg(1)>>>>)>>)
    @@ "$dynamicAnchor" :> Method("setter", <<"string">>,
        <<CheckDuplicate("SchemaObject", Lit("$dynamicAnchor")),
          Assign("$dynamicAnchor", FromArg(1))>>)
    @@ "$id" :> Method("setter", <<"string">>,
        <<CheckDuplicate("SchemaObject", Lit("$id")),
          Assign("$id", FromArg(1))>>)
    @@ "$schema" :> Method("setter", <<"string">>,
        <<CheckDuplicate("SchemaObject", Lit("$schema")),
          Assign("$schema", FromArg(1))>>)
    @@ "allOf" :> Method("list", <<"element">>,
        <<If(Present("allOf", TRUE), <<Assign("allOf", NewArr)>>, <<CheckArray("SchemaObject", "allOf", 1)>>),
          Push("allOf", 1)>>)
    @@ "anyOf" :> Method("list", <<"element">>,
        <<If(Present("anyOf", TRUE), <<Assign("anyOf", NewArr)>>, <<CheckArray("SchemaObject", "anyOf", 1)>>),
          Push("anyOf", 1)>>)
    @@ "oneOf" :> Method("list", <<"element">>,
        <<If(Present("oneOf", TRUE), <<Assign("oneOf", NewArr)>>, <<CheckArray("SchemaObject", "oneOf", 1)>>),
          Push("oneOf", 1)>>)
    @@ "property" :> Method("keyed", <<"name", "object">>,
        <<If(Present("properties", TRUE), <<Assign("properties", NewMap)>>, <<CheckMap("SchemaObject", "properties", 1)>>),
          MapSet("properties", 1, 2)>>)
    @@ "required" :> Method("list", <<"string">>,
        <<If(Present("required", TRUE), <<Assign("required", NewArr)>>, <<CheckArray("SchemaObject", "required", 1)>>),
          Push("required", 1)>>)
    @@ "title" :> Method("setter", <<"string">>,
        <<CheckDuplicate("SchemaObject", Lit("title")),
          Assign("title", FromArg(1))>>)
    @@ "build" :> Method("build", <<>>,
        <<ReturnTarget>>)

\* 3.1 SchemaPropertyObjectBuilder (src/src/3.1/Builders.ts lines 1376-1536)
SchemaPropertyObjectBuilder31 ==
    "constructor" :> Method("ctor", <<"string">>,
        <<NewTarget(<<<<"type", FromArg(1)>>>>)>>)
    @@ "const" :> Method("setter", <<"primitive">>,
        <<CheckDuplicate("SchemaPropertyObject", Lit("const")),
          Assign("const", FromArg(1))>>)
    @@ "default" :> Method("setter", <<"primitive">>,
        <<CheckDuplicate("SchemaPropertyObject", Lit("default")),
          Assign("default", FromArg(1))>>)
    @@ "deprecated" :> Method("setter", <<"boolean">>,
        <<CheckDuplicate("SchemaPropertyObject", Lit("deprecated")),
          Assign("deprecated", FromArg(1))>>)
    @@ "description" :> Method("setter", <<"string">>,
        <<CheckDuplicate("SchemaPropertyObject", Lit("description")),
          Assign("description", FromArg(1))>>)
    @@ "enum" :> Method("list", <<"primitive">>,
        <<If(Present("enum", TRUE), <<Assign("enum", NewArr)>>, <<CheckArray("SchemaPropertyObject", "enum", 1)>>),
          Push("enum", 1)>>)
    @@ "exclusiveMaximum" :> Method("setter", <<"number">>,
        <<CheckDuplicate("SchemaPropertyObject", Lit("exclusiveMaximum")),
          Assign("exclusiveMaximum", FromArg(1))>>)
    @@ "exclusiveMinimum" :> Method("setter", <<"number">>,
        <<CheckDuplicate("SchemaPropertyObject", Lit("exclusiveMinimum")),
          Assign("exclusiveMinimum", FromArg(1))>>)
    @@ "format" :> Method("setter", <<"string">>,
        <<CheckDuplicate("SchemaPropertyObject", Lit("format")),
          Assign("format", FromArg(1))>>)
    @@ "maximum" :> Method("setter", <<"number">>,
        <<CheckDuplicate("SchemaPropertyObject", Lit("maximum")),
          Assign("maximum", FromArg(1))>>)
    @@ "maxItems" :> Method("setter", <<"number">>,
        <<CheckDuplicate("SchemaPropertyObject", Lit("maxItems")),
          Assign("maxItems", FromArg(1))>>)
    @@ "maxLength" :> Method("setter", <<"number">>,
        <<CheckDuplicate("SchemaPropertyObject", Lit("maxLength")),
          Assign("maxLength", FromArg(1))>>)
    @@ "maxProperties" :> Method("setter", <<"number">>,
        <<CheckDuplicate("SchemaPropertyObject", Lit("maxProperties")),
          Assign("maxProperties", FromArg(1))>>)
    @@ "minimum" :> Method("setter", <<"number">>,
        <<CheckDuplicate("SchemaPropertyObject", Lit("minimum")),
          Assign("minimum", FromArg(1))>>)
    @@ "minItems" :> Method("setter", <<"number">>,
        <<CheckDuplicate("SchemaPropertyObject", Lit("minItems")),
          Assign("minItems", FromArg(1))>>)
    @@ "minLength" :> Method("setter", <<"number">>,
        <<CheckDuplicate("SchemaPropertyObject", Lit("minLength")),
          Assign("minLength", FromArg(1))>>)
    @@ "minProperties" :> Method("setter", <<"number">>,
        <<CheckDuplicate("SchemaPropertyObject", Lit("minProperties")),
          Assign("minProperties", FromArg(1))>>)
    @@ "multipleOf" :> Method("setter", <<"number">>,
        <<CheckDuplicate("SchemaPropertyObject", Lit("multipleOf")),
          Assign("multipleOf", FromArg(1))>>)
    @@ "pattern" :> Method("setter", <<"string">>,
        <<CheckDuplicate("SchemaPropertyObject", Lit("pattern")),
          Assign("pattern", FromArg(1))>>)
    @@ "readOnly" :> Method("setter", <<"boolean">>,
        <<CheckDuplicate("SchemaPropertyObject", Lit("readOnly")),
          Assign("readOnly", FromArg(1))>>)
    @@ "required" :> Method("list", <<"string">>,
        <<If(Present("required", TRUE), <<Assign("required", NewArr)>>, <<CheckArray("SchemaPropertyObject", "required", 1)>>),
          Push("required", 1)>>)
    @@ "title" :> Method("setter", <<"string">>,
        <<CheckDuplicate("SchemaPropertyObject", Lit("title")),
          Assign("title", FromArg(1))>>)
    @@ "unique" :> Method("setter", <<"boolean">>,
        <<CheckDuplicate("SchemaPropertyObject", Lit("unique")),
          Assign("unique", FromArg(1))>>)
    @@ "writeOnly" :> Method("setter", <<"boolean">>,
        <<CheckDuplicate("SchemaPropertyObject", Lit("writeOnly")),
          Assign("writeOnly", FromArg(1))>>)
    @@ "build" :> Method("build", <<>>,
        <<ReturnTarget>>)

\* 3.1 ServerObjectBuilder (src/src/3.1/Builders.ts lines 1542-1574)
ServerObjectBuilder31 ==
    "constructor" :> Method("ctor", <<"url">>,
        <<NewTarget(<<<<"url", FromArg(1)>>>>),
          CheckURL("ServerObject", "url", 1)>>)
    @@ "description" :> Method("setter", <<"string">>,
        <<CheckDuplicate("ServerObject", Lit("description")),
          Assign("description", FromArg(1))>>)
    @@ "variable" :> Method("keyed", <<"name", "object">>,
        <<If(Present("variables", TRUE), <<Assign("variables", NewMap)>>, <<CheckMap("ServerObject", "variables", 1)>>),
          MapSet("variables", 1, 2)>>)
    @@ "build" :> Method("build", <<>>,
        <<ReturnTarget>>)

\* 3.1 ServerVariableObjectBuilder (src/src/3.1/Builders.ts lines 1580-1603)
ServerVariableObjectBuilder31 ==
    "constructor" :> Method("ctor", <<"string">>,
        <<NewTarget(<<<<"default", FromArg(1)>>>>)>>)
    @@ "description" :> Method("setter", <<"string">>,
        <<CheckDuplicate("ServerVariableObject", Lit("description")),
          Assign("description", FromArg(1))>>)
    @@ "enum" :> Method("setter", <<"strings">>,
        <<CheckDuplicate("ServerVariableObject", Lit("enum")),
          CheckEmpty("ServerVariableObject", "enum", 1),
          Assign("enum", FromArg(1))>>)

\* 3.1 TagObjectBuilder (src/src/3.1/Builders.ts lines 1608-1634)
TagObjectBuilder31 ==
    "constructor" :> Method("ctor", <<"string">>,
        <<NewTarget(<<<<"name", FromArg(1)>>>>)>>)
    @@ "description" :> Method("setter", <<"string">>,
        <<CheckDuplicate("TagObject", Lit("description")),
          Assign("description", FromArg(1))>>)
    @@ "externalDocs" :> Method("setter", <<"object">>,
        <<CheckDuplicate("TagObject", Lit("externalDocs")),
          Assign("externalDocs", FromArg(1))>>)
    @@ "build" :> Method("build", <<>>,
        <<ReturnTarget>>)

\* 3.0 OpenApiObjectBuilder (src/src/3.0/Builders.ts lines 56-151)
OpenApiObjectBuilder30 ==
    "constructor" :> Method("ctor", <<"object">>,
        <<NewTarget(<<<<"openapi", Const(OPENAPI_VERSION)>>, <<"info", FromArg(1)>>, <<"paths", NewObj>>>>)>>)
    @@ "components" :> Method("setter", <<"object">>,
        <<Assign("components", FromArg(1))>>)
    @@ "externalDocs" :> Method("setter", <<"object">>,
        <<Assign("externalDocs", FromArg(1))>>)
    @@ "asJson" :> Method("serialize", <<>>,
        <<Delegate("build")>>)
    @@ "pathItem" :> Method("keyed", <<"path", "pathItem">>,
        <<ValidatePath("ApiObjectBuilder.pathItem", 1),
          If(Lookup("paths", 1, FALSE), <<Throw("Error", "OpenApiObjectBuilder.pathItem: path '", 1, "' cannot be specified more than once.")>>, <<>>),
          ObjSet("paths", Arg(1), 2)>>)
    @@ "pathItems" :> Method("bulk", <<"pathEntries">>,
        <<ForEachEntry(1, "pathItem")>>)
    @@ "paths" :> Method("bulk", <<"pathEntries">>,
        <<Delegate("pathItems")>>)
    @@ "security" :> Method("setter", <<"object">>,
        <<Assign("security", FromArg(1))>>)
    @@ "server" :> Method("list", <<"element">>,
        <<If(Present("servers", TRUE), <<Assign("servers", NewArr)>>, <<>>),
          Push("servers", 1)>>)
    @@ "tag" :> Method("list", <<"element">>,
        <<If(Present("tags", TRUE), <<Assign("tags", NewArr)>>, <<>>),
          Push("tags", 1)>>)
    @@ "tags" :> Method("bulk", <<"entries">>,
        <<ForEachValue(1, "tag")>>)
    @@ "build" :> Method("build", <<>>,
        <<ReturnTarget>>)

\* 3.0 ParameterObjectBuilder (src/src/3.0/Builders.ts lines 156-248)
ParameterObjectBuilder30 ==
    "constructor" :> Method("ctor", <<"string?", "string?">>,
        <<NewTarget(<<>>),
          If(ArgTruthy(1, FALSE), <<Assign("in", FromArg(1))>>, <<>>),
          If(ArgTruthy(2, FALSE), <<Assign("name", FromArg(2))>>, <<>>)>>)
    @@ "allowEmptyValue" :> Method("setter", <<"boolean">>,
        <<Assign("allowEmptyValue", FromArg(1))>>)
    @@ "allowReserved" :> Method("setter", <<"boolean">>,
        <<Assign("allowReserved", FromArg(1))>>)
    @@ "content" :> Method("keyed", <<"name", "object">>,
        <<If(Present("content", TRUE), <<Assign("content", NewObj)>>, <<>>),
          ObjSet("content", Arg(1), 2)>>)
    @@ "deprecated" :> Method("setter", <<"boolean">>,
        <<Assign("deprecated", FromArg(1))>>)
    @@ "description" :> Method("setter", <<"string">>,
        <<Assign("description", FromArg(1))>>)
    @@ "example" :> Method("keyed", <<"object", "name?">>,
        <<If(ArgTruthy(2, FALSE), <<If(Present("examples", TRUE), <<Assign("examples", NewObj)>>, <<>>), ObjSet("examples", Arg(2), 1)>>, <<Assign("example", FromArg(1))>>)>>)
    @@ "explode" :> Method("setter", <<"boolean">>,
        <<Assign("explode", FromArg(1))>>)
    @@ "required" :> Method("setter", <<"boolean">>,
        <<Assign("required", FromArg(1))>>)
    @@ "schema" :> Method("setter", <<"object">>,
        <<Assign("schema", FromArg(1))>>)
    @@ "schemas" :> Method("bulk", <<"entries">>,
        <<ForEachValue(1, "schema")>>)
    @@ "style" :> Method("setter", <<"string">>,
        <<Assign("style", FromArg(1))>>)
    @@ "build" :> Method("build", <<>>,
        <<If(Truthy("in", TRUE), <<Throw("Error", "ParameterObjectBuilder.build: Missing required 'in' value", 0, "")>>, <<>>),
          If(Truthy("name", TRUE), <<Throw("Error", "ParameterObjectBuilder.build: Missing required 'name' value", 0, "")>>, <<>>),
          ReturnTarget>>)

\* 3.0 ComponentsObjectBuilder (src/src/3.0/Builders.ts lines 250-406)
ComponentsObjectBuilder30 ==
    "constructor" :> Method("ctor", <<>>,
        <<NewTarget(<<>>)>>)
    @@ "callback" :> Method("keyed", <<"name", "object">>,
        <<If(Present("callbacks", TRUE), <<Assign("callbacks", NewObj)>>, <<>>),
          If(Lookup("callbacks", 1, FALSE), <<Throw("Error", "ComponentsObjectBuilder.callback: Callback '", 1, "' has already been registered")>>, <<>>),
          ObjSet("callbacks", Arg(1), 2)>>)
    @@ "callbacks" :> Method("bulk", <<"entries">>,
        <<ForEachEntry(1, "callback")>>)
    @@ "example" :> Method("keyed", <<"name", "object">>,
        <<If(Present("examples", TRUE), <<Assign("examples", NewObj)>>, <<>>),
          If(Lookup("examples", 1, FALSE), <<Throw("Error", "ComponentsObjectBuilder.example: Example '", 1, "' has already been registered")>>, <<>>),
          ObjSet("examples", Arg(1), 2)>>)
    @@ "header" :> Method("keyed", <<"name", "object">>,
        <<If(Present("headers", TRUE), <<Assign("headers", NewObj)>>, <<>>),
          If(Lookup("headers", 1, FALSE), <<Throw("Error", "ComponentsObjectBuilder.header: Header '", 1, "' has already been registered")>>, <<>>),
          ObjSet("headers", Arg(1), 2)>>)
    @@ "headers" :> Method("bulk", <<"entries">>,
        <<ForEachEntry(1, "header")>>)
    @@ "link" :> Method("keyed", <<"name", "object">>,
        <<If(Present("links", TRUE), <<Assign("links", NewObj)>>, <<>>),
          If(Lookup("links", 1, FALSE), <<Throw("Error", "ComponentsObjectBuilder.link: Link '", 1, "' has already been registered")>>, <<>>),
          ObjSet("links", Arg(1), 2)>>)
    @@ "links" :> Method("bulk", <<"entries">>,
        <<ForEachEntry(1, "link")>>)
    @@ "parameter" :> Method("keyed", <<"name", "object">>,
        <<If(Present("parameters", TRUE), <<Assign("parameters", NewObj)>>, <<>>),
          If(Lookup("parameters", 1, FALSE), <<Throw("Error", "ComponentsObjectBuilder.parameter: Parameter '", 1, "' has already been registered")>>, <<>>),
          ObjSet("parameters", Arg(1), 2)>>)
    @@ "parameters" :> Method("bulk", <<"entries">>,
        <<ForEachEntry(1, "parameter")>>)
    @@ "requestBodies" :> Method("bulk", <<"entries">>,
        <<ForEachEntry(1, "requestBody")>>)
    @@ "requestBody" :> Method("keyed", <<"name", "object">>,
        <<If(Present("requestBodies", TRUE), <<Assign("requestBodies", NewObj)>>, <<>>),
          If(Lookup("requestBodies", 1, FALSE), <<Throw("Error", "ComponentsObjectBuilder.requestBody: RequestBody '", 1, "' has already been registered")>>, <<>>),
          ObjSet("requestBodies", Arg(1), 2)>>)
    @@ "response" :> Method("keyed", <<"status", "object">>,
        <<If(Present("responses", TRUE), <<Assign("responses", NewObj)>>, <<>>),
          If(ArgIs(1, "default", FALSE), <<ObjSet("responses", Lit("default"), 2)>>, <<If(Lookup("responses", 1, FALSE), <<Throw("Error", "ComponentsObjectBuilder.response: Response '", 1, "' has already been registered")>>, <<>>), ObjSet("responses", Arg(1), 2)>>)>>)
    @@ "responses" :> Method("bulk", <<"statusEntries">>,
        <<ForEachEntry(1, "response")>>)
    @@ "schema" :> Method("keyed", <<"name", "object">>,
        <<If(Present("schemas", TRUE), <<Assign("schemas", NewObj)>>, <<>>),
          If(Lookup("schemas", 1, FALSE), <<Throw("Error", "ComponentsObjectBuilder.schema: Schema '", 1, "' has already been registered")>>, <<>>),
          ObjSet("schemas", Arg(1), 2)>>)
    @@ "schemas" :> Method("bulk", <<"entries">>,
        <<ForEachEntry(1, "schema")>>)
    @@ "build" :> Method("build", <<>>,
        <<ReturnTarget>>)

\* 3.0 ContactObjectBuilder (src/src/3.0/Builders.ts lines 408-437)
ContactObjectBuilder30 ==
    "constructor" :> Method("ctor", <<>>,
        <<NewTarget(<<>>)>>)
    @@ "email" :> Method("setter", <<"string">>,
        <<Assign("email", FromArg(1))>>)
    @@ "name" :> Method("setter", <<"string">>,
        <<Assign("name", FromArg(1))>>)
    @@ "url" :> Method("setter", <<"url">>,
        <<ValidateUrl("ContactObjectBuilder.url", 1),
          Assign("url", FromArg(1))>>)
    @@ "build" :> Method("build", <<>>,
        <<ReturnTarget>>)

\* 3.0 ExternalDocsObjectBuilder (src/src/3.0/Builders.ts lines 439-460)
ExternalDocsObjectBuilder30 ==
    "constructor" :> Method("ctor", <<"url">>,
        <<ValidateUrl("ExternalDocsObjectBuilder", 1),
          NewTarget(<<<<"url", FromArg(1)>>>>)>>)
    @@ "description" :> Method("setter", <<"string">>,
        <<Assign("description", FromArg(1))>>)
    @@ "build" :> Method("build", <<>>,
        <<ReturnTarget>>)

\* 3.0 HeaderObjectBuilder (src/src/3.0/Builders.ts lines 462-474)
HeaderObjectBuilder30 ==
    "build" :> Method("build", <<>>,
        <<If(Truthy("in", FALSE), <<Throw("Error", "HeaderObjectBuilder.build: 'in' is not allowed on HeaderObject", 0, "")>>, <<>>),
          If(Truthy("name", FALSE), <<Throw("Error", "HeaderObjectBuilder.build: 'name' is not allowed on HeaderObject", 0, "")>>, <<>>),
          ReturnTarget>>)
    @@ ParameterObjectBuilder30

\* 3.0 InfoObjectBuilder (src/src/3.0/Builders.ts lines 476-528)
InfoObjectBuilder30 ==
    "constructor" :> Method("ctor", <<"string", "string">>,
        <<NewTarget(<<<<"title", FromArg(1)>>, <<"version", FromArg(2)>>>>)>>)
    @@ "contact" :> Method("setter", <<"object">>,
        <<Assign("contact", FromArg(1))>>)
    @@ "description" :> Method("setter", <<"string">>,
        <<Assign("description", FromArg(1))>>)
    @@ "license" :> Method("setter", <<"object">>,
        <<Assign("license", FromArg(1))>>)
    @@ "server" :> Method("list", <<"element">>,
        <<If(Present("servers", TRUE), <<Assign("servers", NewArr)>>, <<>>),
          Push("servers", 1)>>)
    @@ "tag" :> Method("list", <<"element">>,
        <<If(Present("tags", TRUE), <<Assign("tags", NewArr)>>, <<>>),
          Push("tags", 1)>>)
    @@ "termsOfService" :> Method("setter", <<"url">>,
        <<Assign("termsOfService", FromArg(1))>>)
    @@ "build" :> Method("build", <<>>,
        <<ReturnTarget>>)

\* 3.0 LicenseObjectBuilder (src/src/3.0/Builders.ts lines 530-551)
LicenseObjectBuilder30 ==
    "constructor" :> Method("ctor", <<"string">>,
        <<NewTarget(<<<<"name", FromArg(1)>>>>)>>)
    @@ "url" :> Method("setter", <<"url">>,
        <<ValidateUrl("LicenseObjectBuilder.url", 1),
          Assign("url", FromArg(1))>>)
    @@ "build" :> Method("build", <<>>,
        <<ReturnTarget>>)

\* 3.0 MediaTypeObjectBuilder (src/src/3.0/Builders.ts lines 553-583)
MediaTypeObjectBuilder30 ==
    "constructor" :> Method("ctor", <<>>,
        <<NewTarget(<<>>)>>)
    @@ "example" :> Method("setter", <<"object">>,
        <<Assign("example", FromArg(1))>>)
    @@ "schema" :> Method("setter", <<"object">>,
        <<If(Truthy("schema", FALSE), <<Throw("Error", "MediaTypeObjectBuilder.schema: Cannot specify more than one schema", 0, "")>>, <<>>),
          Assign("schema", FromArg(1))>>)
    @@ "build" :> Method("build", <<>>,
        <<ReturnTarget>>)

\* 3.0 OperationObjectBuilder (src/src/3.0/Builders.ts lines 585-690)
OperationObjectBuilder30 ==
    "constructor" :> Method("ctor", <<>>,
        <<NewTarget(<<<<"responses", NewObj>>>>)>>)
    @@ "callback" :> Method("keyed", <<"name", "object">>,
        <<If(Present("callbacks", TRUE), <<Assign("callbacks", NewObj)>>, <<>>),
          ObjSet("callbacks", Arg(1), 2)>>)
    @@ "deprecated" :> Method("setter", <<"boolean">>,
        <<Assign("deprecated", FromArg(1))>>)
    @@ "description" :> Method("setter", <<"string">>,
        <<Assign("description", FromArg(1))>>)
    @@ "externalDocs" :> Method("setter", <<"object">>,
        <<Assign("externalDocs", FromArg(1))>>)
    @@ "operationId" :> Method("setter", <<"string">>,
        <<Assign("operationId", FromArg(1))>>)
    @@ "parameter" :> Method("list", <<"element">>,
        <<If(Present("parameters", TRUE), <<Assign("parameters", NewArr)>>, <<>>),
          Push("parameters", 1)>>)
    @@ "parameters" :> Method("bulk", <<"entries">>,
        <<ForEachValue(1, "parameter")>>)
    @@ "requestBody" :> Method("setter", <<"object">>,
        <<Assign("requestBody", FromArg(1))>>)
    @@ "response" :> Method("keyed", <<"status", "object">>,
        <<If(Present("responses", TRUE), <<Assign("responses", NewObj)>>, <<>>),
          If(ArgIs(1, "default", FALSE), <<ObjSet("responses", Lit("default"), 2)>>, <<ObjSet("responses", Arg(1), 2)>>)>>)
    @@ "responses" :> Method("bulk", <<"statusEntries">>,
        <<ForEachEntry(1, "response")>>)
    @@ "server" :> Method("list", <<"element">>,
        <<If(Present("servers", TRUE), <<Assign("servers", NewArr)>>, <<>>),
          Push("servers", 1)>>)
    @@ "summary" :> Method("setter", <<"string">>,
        <<Assign("summary", FromArg(1))>>)
    @@ "tag" :> Method("list", <<"string">>,
        <<If(Present("tags", TRUE), <<Assign("tags", NewArr)>>, <<>>),
          Push("tags", 1)>>)
    @@ "build" :> Method("build", <<>>,
        <<ReturnTarget>>)

\* 3.0 ParametersObjectBuilder (src/src/3.0/Builders.ts lines 692-710)
ParametersObjectBuilder30 ==
    "constructor" :> Method("ctor", <<>>,
        <<NewTarget(<<>>)>>)
    @@ "parameter" :> Method("keyed", <<"name", "object">>,
        <<AssignKey(Arg(1), 2)>>)
    @@ "build" :> Method("build", <<>>,
        <<ReturnTarget>>)

\* 3.0 PathItemObjectBuilder (src/src/3.0/Builders.ts lines 712-829)
PathItemObjectBuilder30 ==
    "constructor" :> Method("ctor", <<>>,
        <<NewTarget(<<>>)>>)
    @@ "$ref" :> Method("setter", <<"string">>,
        <<ValidateRef("PathItemObjectBuilder.$ref", 1),
          Assign("$ref", FromArg(1))>>)
    @@ "delete" :> Method("setter", <<"object">>,
        <<If(Truthy("delete", FALSE), <<Throw("Error", "PathItemObjectBuilder.delete: Cannot specify DELETE operation more than once per path.", 0, "")>>, <<>>),
          Assign("delete", FromArg(1))>>)
    @@ "description" :> Method("setter", <<"string">>,
        <<Assign("description", FromArg(1))>>)
    @@ "get" :> Method("setter", <<"object">>,
        <<If(Truthy("get", FALSE), <<Throw("Error", "PathItemObjectBuilder.get: Cannot specify GET operation more than once per path.", 0, "")>>, <<>>),
          Assign("get", FromArg(1))>>)
    @@ "head" :> Method("setter", <<"object">>,
        <<If(Truthy("head", FALSE), <<Throw("Error", "PathItemObjectBuilder.head: Cannot specify HEAD operation more than once per path.", 0, "")>>, <<>>),
          Assign("head", FromArg(1))>>)
    @@ "options" :> Method("setter", <<"object">>,
        <<If(Truthy("options", FALSE), <<Throw("Error", "PathItemObjectBuilder.options: Cannot specify OPTIONS operation more than once per path.", 0, "")>>, <<>>),
          Assign("options", FromArg(1))>>)
    @@ "parameter" :> Method("list", <<"element">>,
        <<If(Present("parameters", TRUE), <<Assign("parameters", NewArr)>>, <<>>),
          Push("parameters", 1)>>)
    @@ "parameters" :> Method("bulk", <<"entries">>,
        <<ForEachValue(1, "parameter")>>)
    @@ "patch" :> Method("setter", <<"object">>,
        <<If(Truthy("patch", FALSE), <<Throw("Error", "PathItemObjectBuilder.patch: Cannot specify PATCH operation more than once per path.", 0, "")>>, <<>>),
          Assign("patch", FromArg(1))>>)
    @@ "post" :> Method("setter", <<"object">>,
        <<If(Truthy("post", FALSE), <<Throw("Error", "PathItemObjectBuilder.post: Cannot specify POST operation more than once per path.", 0, "")>>, <<>>),
          Assign("post", FromArg(1))>>)
    @@ "put" :> Method("setter", <<"object">>,
        <<If(Truthy("put", FALSE), <<Throw("Error", "PathItemObjectBuilder.put: Cannot specify PUT operation more than once per path.", 0, "")>>, <<>>),
          Assign("put", FromArg(1))>>)
    @@ "server" :> Method("list", <<"element">>,
        <<If(Truthy("server", TRUE), <<Assign("servers", NewArr)>>, <<>>),
          Push("servers", 1)>>)
    @@ "summary" :> Method("setter", <<"string">>,
        <<Assign("summary", FromArg(1))>>)
    @@ "trace" :> Method("setter", <<"object">>,
        <<If(Truthy("trace", FALSE), <<Throw("Error", "PathItemObjectBuilder.trace: Cannot specify TRACE operation more than once per path.", 0, "")>>, <<>>),
          Assign("trace", FromArg(1))>>)
    @@ "build" :> Method("build", <<>>,
        <<ReturnTarget>>)

\* 3.0 PathsObjectBuilder (src/src/3.0/Builders.ts lines 831-849)
PathsObjectBuilder30 ==
    "constructor" :> Method("ctor", <<>>,
        <<NewTarget(<<>>)>>)
    @@ "path" :> Method("keyed", <<"path", "object">>,
        <<AssignKey(Arg(1), 2)>>)
    @@ "build" :> Method("build", <<>>,
        <<ReturnTarget>>)

\* 3.0 ReferenceObjectBuilder (src/src/3.0/Builders.ts lines 860-876)
ReferenceObjectBuilder30 ==
    "constructor" :> Method("ctor", <<"string">>,
        <<ValidateRef("ReferenceObjectBuilder", 1),
          NewTarget(<<<<"$ref", FromArg(1)>>>>)>>)
    @@ "build" :> Method("build", <<>>,
        <<ReturnTarget>>)

\* 3.0 RequestBodiesObjectBuilder (src/src/3.0/Builders.ts lines 878-896)
RequestBodiesObjectBuilder30 ==
    "constructor" :> Method("ctor", <<>>,
        <<NewTarget(<<>>)>>)
    @@ "requestBody" :> Method("keyed", <<"name", "object">>,
        <<AssignKey(Arg(1), 2)>>)
    @@ "build" :> Method("build", <<>>,
        <<ReturnTarget>>)

\* 3.0 RequestBodyObjectBuilder (src/src/3.0/Builders.ts lines 898-930)
RequestBodyObjectBuilder30 ==
    "constructor" :> Method("ctor", <<>>,
        <<NewTarget(<<>>)>>)
    @@ "content" :> Method("keyed", <<"name", "object">>,
        <<If(Present("content", TRUE), <<Assign("content", NewObj)>>, <<>>),
          ValidateMediaType("RequestBodyObjectBuilder.content", 1),
          ObjSet("content", Arg(1), 2)>>)
    @@ "description" :> Method("setter", <<"string">>,
        <<Assign("description", FromArg(1))>>)
    @@ "required" :> Method("setter", <<"boolean">>,
        <<Assign("required", FromArg(1))>>)
    @@ "build" :> Method("build", <<>>,
        <<ReturnTarget>>)

\* 3.0 ResponseObjectBuilder (src/src/3.0/Builders.ts lines 932-992)
ResponseObjectBuilder30 ==
    "constructor" :> Method("ctor", <<"string">>,
        <<NewTarget(<<<<"description", FromArg(1)>>>>)>>)
    @@ "content" :> Method("keyed", <<"name", "object">>,
        <<If(Present("content", TRUE), <<Assign("content", NewObj)>>, <<>>),
          ObjSet("content", Arg(1), 2)>>)
    @@ "header" :> Method("keyed", <<"name", "object">>,
        <<If(Present("headers", TRUE), <<Assign("headers", NewObj)>>, <<>>),
          If(Lookup("headers", 1, FALSE), <<Throw("Error", "ResponseObjectBuilder.header: Cannot specify header name '", 1, "' more than once")>>, <<>>),
          ObjSet("headers", Arg(1), 2)>>)
    @@ "headers" :> Method("bulk", <<"entries">>,
        <<ForEachEntry(1, "header")>>)
    @@ "link" :> Method("keyed", <<"name", "object">>,
        <<If(Present("links", TRUE), <<Assign("links", NewObj)>>, <<>>),
          If(Lookup("links", 1, FALSE), <<Throw("Error", "ResponseObjectBuilder.link: Cannot specify link name '", 1, "' more than once")>>, <<>>),
          ObjSet("links", Arg(1), 2)>>)
    @@ "links" :> Method("bulk", <<"entries">>,
        <<ForEachEntry(1, "link")>>)
    @@ "build" :> Method("build", <<>>,
        <<ReturnTarget>>)

\* 3.0 ResponsesObjectBuilder (src/src/3.0/Builders.ts lines 994-1015)
ResponsesObjectBuilder30 ==
    "constructor" :> Method("ctor", <<>>,
        <<NewTarget(<<>>)>>)
    @@ "response" :> Method("keyed", <<"status", "object", "boolean">>,
        <<AssignKey(Arg(1), 2),
          If(ArgTruthy(3, FALSE), <<Assign("default", FromArg(2))>>, <<>>)>>)
    @@ "build" :> Method("build", <<>>,
        <<ReturnTarget>>)

\* 3.0 SchemaObjectBuilder (src/src/3.0/Builders.ts lines 1017-1084)
SchemaObjectBuilder30 ==
    "constructor" :> Method("ctor", <<"string?", "string?", "boolean?">>,
        <<NewTarget(<<<<"description", ArgOrUndefined(2)>>, <<"type", ArgOrUndefined(1)>>>>),
          If(ArgDefined(3, FALSE), <<Assign("nullable", FromArg(3))>>, <<>>)>>)
    @@ "deprecated" :> Method("setter", <<"boolean">>,
        <<Assign("deprecated", FromArg(1))>>)
    @@ "description" :> Method("setter", <<"string">>,
        <<Assign("description", FromArg(1))>>)
    @@ "example" :> Method("setter", <<"object">>,
        <<Assign("example", FromArg(1))>>)
    @@ "externalDocs" :> Method("setter", <<"object">>,
        <<Assign("externalDocs", FromArg(1))>>)
    @@ "format" :> Method("setter", <<"string">>,
        <<Assign("format", FromArg(1))>>)
    @@ "items" :> Method("setter", <<"object">>,
        <<Assign("items", FromArg(1))>>)
    @@ "nullable" :> Method("setter", <<"boolean">>,
        <<Assign("nullable", FromArg(1))>>)
    @@ "property" :> Method("keyed", <<"name", "object">>,
        <<If(Present("properties", TRUE), <<Assign("properties", NewObj)>>, <<>>),
          ObjSet("properties", Arg(1), 2)>>)
    @@ "type" :> Method("setter", <<"string">>,
        <<Assign("type", FromArg(1))>>)
    @@ "build" :> Method("build", <<>>,
        <<ReturnTarget>>)

\* 3.0 SchemasObjectBuilder (src/src/3.0/Builders.ts lines 1086-1104)
SchemasObjectBuilder30 ==
    "constructor" :> Method("ctor", <<>>,
        <<NewTarget(<<>>)>>)
    @@ "schema" :> Method("keyed", <<"name", "object">>,
        <<AssignKey(Arg(1), 2)>>)
    @@ "build" :> Method("build", <<>>,
        <<ReturnTarget>>)

\* 3.0 SecurityObjectBuilder (src/src/3.0/Builders.ts lines 1106-1119)
SecurityObjectBuilder30 ==
    "constructor" :> Method("ctor", <<>>,
        <<NewTarget(<<>>)>>)
    @@ "build" :> Method("build", <<>>,
        <<ReturnTarget>>)

\* 3.0 ServerObjectBuilder (src/src/3.0/Builders.ts lines 1121-1144)
ServerObjectBuilder30 ==
    "constructor" :> Method("ctor", <<"url">>,
        <<ValidateUrl("ServerObjectBuilder", 1),
          NewTarget(<<<<"url", FromArg(1)>>>>)>>)
    @@ "description" :> Method("setter", <<"string">>,
        <<Assign("description", FromArg(1))>>)
    @@ "build" :> Method("build", <<>>,
        <<ReturnTarget>>)

\* 3.0 TagObjectBuilder (src/src/3.0/Builders.ts lines 1146-1171)
TagObjectBuilder30 ==
    "constructor" :> Method("ctor", <<"string">>,
        <<NewTarget(<<<<"name", FromArg(1)>>>>)>>)
    @@ "description" :> Method("setter", <<"string">>,
        <<Assign("description", FromArg(1))>>)
    @@ "externalDocs" :> Method("setter", <<"object">>,
        <<Assign("externalDocs", FromArg(1))>>)
    @@ "build" :> Method("build", <<>>,
        <<ReturnTarget>>)

\* The builder classes of src/src/3.1/Builders.ts, by class name
Builders31 ==
    "CallbackObjectBuilder" :> CallbackObjectBuilder31
    @@ "ComponentsObjectBuilder" :> ComponentsObjectBuilder31
    @@ "ContactObjectBuilder" :> ContactObjectBuilder31
    @@ "ExampleObjectBuilder" :> ExampleObjectBuilder31
    @@ "ExternalDocsObjectBuilder" :> ExternalDocsObjectBuilder31
    @@ "HeaderObjectBuilder" :> HeaderObjectBuilder31
    @@ "InfoObjectBuilder" :> InfoObjectBuilder31
    @@ "LicenseObjectBuilder" :> LicenseObjectBuilder31
    @@ "LinkObjectBuilder" :> LinkObjectBuilder31
    @@ "MediaTypeObjectBuilder" :> MediaTypeObjectBuilder31
    @@ "OpenApiObjectBuilder" :> OpenApiObjectBuilder31
    @@ "OperationObjectBuilder" :> OperationObjectBuilder31
    @@ "ParameterObjectBuilder" :> ParameterObjectBuilder31
    @@ "ParametersObjectBuilder" :> ParametersObjectBuilder31
    @@ "PathItemObjectBuilder" :> PathItemObjectBuilder31
    @@ "PathsObjectBuilder" :> PathsObjectBuilder31
    @@ "ReferenceObjectBuilder" :> ReferenceObjectBuilder31
    @@ "RequestBodyObjectBuilder" :> RequestBodyObjectBuilder31
    @@ "ResponseObjectBuilder" :> ResponseObjectBuilder31
    @@ "ResponsesObjectBuilder" :> ResponsesObjectBuilder31
    @@ "SchemaObjectBuilder" :> SchemaObjectBuilder31
    @@ "SchemaPropertyObjectBuilder" :> SchemaPropertyObjectBuilder31
    @@ "ServerObjectBuilder" :> ServerObjectBuilder31
    @@ "ServerVariableObjectBuilder" :> ServerVariableObjectBuilder31
    @@ "TagObjectBuilder" :> TagObjectBuilder31

\* The builder classes of src/src/3.0/Builders.ts, by class name
Builders30 ==
    "OpenApiObjectBuilder" :> OpenApiObjectBuilder30
    @@ "ParameterObjectBuilder" :> ParameterObjectBuilder30
    @@ "ComponentsObjectBuilder" :> ComponentsObjectBuilder30
    @@ "ContactObjectBuilder" :> ContactObjectBuilder30
    @@ "ExternalDocsObjectBuilder" :> ExternalDocsObjectBuilder30
    @@ "HeaderObjectBuilder" :> HeaderObjectBuilder30
    @@ "InfoObjectBuilder" :> InfoObjectBuilder30
    @@ "LicenseObjectBuilder" :> LicenseObjectBuilder30
    @@ "MediaTypeObjectBuilder" :> MediaTypeObjectBuilder30
    @@ "OperationObjectBuilder" :> OperationObjectBuilder30
    @@ "ParametersObjectBuilder" :> ParametersObjectBuilder30
    @@ "PathItemObjectBuilder" :> PathItemObjectBuilder30
    @@ "PathsObjectBuilder" :> PathsObjectBuilder30
    @@ "ReferenceObjectBuilder" :> ReferenceObjectBuilder30
    @@ "RequestBodiesObjectBuilder" :> RequestBodiesObjectBuilder30
    @@ "RequestBodyObjectBuilder" :> RequestBodyObjectBuilder30
    @@ "ResponseObjectBuilder" :> ResponseObjectBuilder30
    @@ "ResponsesObjectBuilder" :> ResponsesObjectBuilder30
    @@ "SchemaObjectBuilder" :> SchemaObjectBuilder30
    @@ "SchemasObjectBuilder" :> SchemasObjectBuilder30
    @@ "SecurityObjectBuilder" :> SecurityObjectBuilder30
    @@ "ServerObjectBuilder" :> ServerObjectBuilder30
    @@ "TagObjectBuilder" :> TagObjectBuilder30

Classes == "3.1" :> Builders31 @@ "3.0" :> Builders30

-----------------------------------------------------------------------------
(* Execution of a method body *)

Put(m, k, v) == [x \in (DOMAIN m) \cup {k} |-> IF x = k THEN v ELSE m[x]]

PropName(ref, args) ==
    IF ref.k = "lit" THEN ref.s
    ELSE IF ref.k = "arg" THEN args[ref.i]
    ELSE GetProp(args[ref.i], ref.s)

Source(src, args) ==
    IF src.k = "arg" THEN args[src.i]
    ELSE IF src.k = "argOrUndefined"
    THEN (IF args[src.i] \notin Falsy THEN args[src.i] ELSE Undefined)
    ELSE IF src.k = "const" THEN src.s
    ELSE <<>>

\* this.target = { f1: e1, f2: e2, ... }
RECURSIVE ObjectLiteral(_, _, _)
ObjectLiteral(fields, args, i) ==
    IF i > Len(fields) THEN <<>>
    ELSE Put(ObjectLiteral(fields, args, i + 1), fields[i][1], Source(fields[i][2], args))

\* obj[key] read through the prototype chain of a plain object, as a boolean
LookupTruthy(obj, key) ==
    IF key \in DOMAIN obj THEN obj[key] \notin Falsy
    ELSE key \in ObjectPrototypeKeys

CondThrows(c, t) == c.c = "lookup" /\ c.f \notin DOMAIN t

Holds(c, t, args) ==
    LET v == CASE c.c = "present"    -> c.f \in DOMAIN t
               [] c.c = "truthy"     -> c.f \in DOMAIN t /\ t[c.f] \notin Falsy
               [] c.c = "lookup"     -> LookupTruthy(t[c.f], args[c.i])
               [] c.c = "arg"        -> args[c.i] \notin Falsy
               [] c.c = "argIs"      -> args[c.i] = c.f
               [] c.c = "argDefined" -> args[c.i] # Undefined
               [] c.c = "startsWith" -> startsWith(args[c.i], c.f)
    IN  IF c.neg THEN ~v ELSE v

Outcome(t, err) == [t |-> t, err |-> err]

\* The error a check statement throws on draft t, or NoError
CheckResult(s, t, args) ==
    CASE s.op = "checkDuplicate"    -> checkDuplicate(s.name, t, PropName(s.f, args))
      [] s.op = "checkDuplicateIn"  -> checkDuplicate(s.name, t[s.g], PropName(s.f, args))
      [] s.op = "checkExclusive"    -> checkExclusive(s.name, t, s.f, s.g)
      [] s.op = "checkURL"          -> checkURL(s.name, t, s.f, args[s.i])
      [] s.op = "checkEmpty"        -> checkEmpty(s.name, t, s.f, args[s.i])
      [] s.op = "checkMap"          -> checkMap(s.name, t, s.f, args[s.i])
      [] s.op = "checkArray"        -> checkArray(s.name, t, s.f, args[s.i])
      [] s.op = "validateUrl"       -> validateUrl(s.name, args[s.i])
      [] s.op = "validatePath"      -> validatePath(s.name, args[s.i])
      [] s.op = "validateRef"       -> validateRef(s.name, args[s.i])
      [] s.op = "validateMediaType" -> validateMediaType(s.name, args[s.i])
      [] s.op = "throw"             ->
            Error(s.name, s.f \o (IF s.i = 0 THEN "" ELSE args[s.i]) \o s.g)

CheckOps ==
    {"checkDuplicate", "checkDuplicateIn", "checkExclusive", "checkURL", "checkEmpty",
     "checkMap", "checkArray", "validateUrl", "validatePath", "validateRef",
     "validateMediaType", "throw"}

\* The draft after a statement that writes
Written(s, t, args) ==
    CASE s.op = "newTarget" -> ObjectLiteral(s.f, args, 1)
      [] s.op = "assign"    -> Put(t, s.f, Source(s.g, args))
      [] s.op = "assignKey" -> Put(t, PropName(s.f, args), args[s.i])
      [] s.op = "mapSet"    -> Put(t, s.f, Put(t[s.f], args[s.i], args[s.j]))
      [] s.op = "objSet"    -> Put(t, s.f, Put(t[s.f], PropName(s.g, args), args[s.j]))
      [] s.op = "push"      -> Put(t, s.f, Append(t[s.f], args[s.i]))
      [] OTHER              -> t

\* A write through a property that the draft does not have
WriteThrows(s, t) == s.op \in {"mapSet", "objSet", "push"} /\ s.f \notin DOMAIN t

\* Variant of LoopCalls that walks the collection from its last entry
LoopCallsBackwards(s, args) ==
    LET coll == args[s.i]
        k    == Len(coll)
    IN  CASE s.op = "forEachEntry"   -> [x \in 1..k |-> <<coll[k + 1 - x][1], coll[k + 1 - x][2]>>]
          [] s.op = "forEachValue"   -> [x \in 1..k |-> <<coll[k + 1 - x][2]>>]
          [] s.op = "forEachElement" -> [x \in 1..k |-> <<coll[k + 1 - x]>>]

\* The argument lists of the calls a loop statement makes, in order
LoopCalls(s, args) ==
    LET coll == args[s.i]
    IN  CASE s.op = "forEachEntry"   -> [x \in 1..Len(coll) |-> <<coll[x][1], coll[x][2]>>]
          [] s.op = "forEachValue"   -> [x \in 1..Len(coll) |-> <<coll[x][2]>>]
          [] s.op = "forEachElement" -> [x \in 1..Len(coll) |-> <<coll[x]>>]

RECURSIVE Exec(_, _, _, _)
RECURSIVE ExecCalls(_, _, _, _, _)

\* Runs this.method(callArgs[i]), this.method(callArgs[i+1]), ... until one throws
ExecCalls(cls, method, t, callArgs, i) ==
    IF i > Len(callArgs) THEN Outcome(t, NoError)
    ELSE LET r == Exec(cls, cls[method].body, t, callArgs[i])
         IN  IF r.err # NoError THEN r
             ELSE ExecCalls(cls, method, r.t, callArgs, i + 1)

\* Runs the statements in order on draft t; a throw ends the method and keeps
\* the writes made before it
Exec(cls, stmts, t, args) ==
    IF stmts = <<>> THEN Outcome(t, NoError)
    ELSE
      LET s    == Head(stmts)
          rest == Tail(stmts)
      IN  IF s.op \in CheckOps
          THEN LET e == CheckResult(s, t, args)
               IN  IF e # NoError THEN Outcome(t, e) ELSE Exec(cls, rest, t, args)
          ELSE IF s.op = "if"
          THEN IF CondThrows(s.f, t)
               THEN Outcome(t, Error("TypeError", "Cannot read properties of undefined"))
               ELSE LET r == Exec(cls, IF Holds(s.f, t, args) THEN s.th ELSE s.el, t, args)
                    IN  IF r.err # NoError THEN r ELSE Exec(cls, rest, r.t, args)
          ELSE IF s.op \in {"forEachEntry", "forEachValue", "forEachElement"}
          THEN LET r == ExecCalls(cls, s.name, t, LoopCalls(s, args), 1)
               IN  IF r.err # NoError THEN r ELSE Exec(cls, rest, r.t, args)
          ELSE IF s.op = "delegate"
          THEN Exec(cls, cls[s.name].body, t, args)
          ELSE IF s.op = "return"
          THEN Outcome(t, NoError)
          ELSE IF WriteThrows(s, t)
          THEN Outcome(t, Error("TypeError", "Cannot read properties of undefined"))
          ELSE Exec(cls, rest, Written(s, t, args), args)

-----------------------------------------------------------------------------
(* State machine of one builder instance *)

Class == Classes[family][kind]

MethodsOfKind(k) == {m \in DOMAIN Class : Class[m].kind = k}

NoCall == [method |-> "", args |-> <<>>, err |-> NoError]

\* What the caller of build() holds: nothing yet, the draft object itself, or
\* an object of its own with the content the draft had
NotReturned == [given |-> FALSE, alias |-> FALSE, content |-> <<>>]

\* The value a return statement hands to the caller when the draft is t
ReturnValue(s, t) ==
    IF s.f = "this.target"
    THEN [given |-> TRUE, alias |-> TRUE, content |-> <<>>]
    ELSE [given |-> TRUE, alias |-> FALSE, content |-> t]

Init ==
    /\ family \in DOMAIN Classes
    /\ kind \in DOMAIN Classes[family]
    /\ phase = "new"
    /\ target = <<>>
    /\ pre = <<>>
    /\ last = NoCall
    /\ n = 0
    /\ built = FALSE
    /\ returned = NotReturned

\* new K(args): the builder exists only if the constructor returns normally
Construct ==
    /\ phase = "new"
    /\ \E args \in ArgsOf(Class["constructor"].sig) :
          LET r == Exec(Class, Class["constructor"].body, <<>>, args)
          IN  /\ phase' = IF r.err = NoError THEN "live" ELSE "failed"
              /\ target' = IF r.err = NoError THEN r.t ELSE <<>>
              /\ last' = [method |-> "constructor", args |-> args, err |-> r.err]
    /\ pre' = <<>>
    /\ UNCHANGED <<family, kind, n, built, returned>>

\* builder.m(args): runs the method on the draft; whatever it wrote before a
\* throw stays written
Call(m, args) ==
    LET r == Exec(Class, Class[m].body, target, args)
    IN  /\ target' = r.t
        /\ last' = [method |-> m, args |-> args, err |-> r.err]
        /\ pre' = target
        /\ UNCHANGED <<family, kind, phase, built, returned>>

\* A single-valued field setter
Setter ==
    /\ phase = "live"
    /\ n < MaxCalls
    /\ n' = n + 1
    /\ \E m \in MethodsOfKind("setter") : \E args \in ArgsOf(Class[m].sig) : Call(m, args)

\* An adder of one key to a keyed collection
KeyedAdder ==
    /\ phase = "live"
    /\ n < MaxCalls
    /\ n' = n + 1
    /\ \E m \in MethodsOfKind("keyed") : \E args \in ArgsOf(Class[m].sig) : Call(m, args)

\* An adder of one element to a list
ListAdder ==
    /\ phase = "live"
    /\ n < MaxCalls
    /\ n' = n + 1
    /\ \E m \in MethodsOfKind("list") : \E args \in ArgsOf(Class[m].sig) : Call(m, args)

\* A bulk adder; each entry of the collection counts as one call
Bulk ==
    /\ phase = "live"
    /\ \E m \in MethodsOfKind("bulk") :
       \E args \in ArgsOf(Class[m].sig) :
          /\ Len(args[1]) > 0
          /\ n + Len(args[1]) <= MaxCalls
          /\ n' = n + Len(args[1])
          /\ Call(m, args)

\* builder.build(): returns this.target itself unless it throws; on a class
\* that defines no build() the call is a TypeError
Build ==
    /\ phase = "live"
    /\ LET r == IF "build" \in DOMAIN Class
                THEN Exec(Class, Class["build"].body, target, <<>>)
                ELSE Outcome(target, Error("TypeError", "build is not a function"))
       IN  /\ target' = r.t
           /\ last' = [method |-> "build", args |-> <<>>, err |-> r.err]
           /\ built' = (built \/ r.err = NoError)
           /\ returned' = IF r.err = NoError
                           THEN LET body == Class["build"].body
                                IN  ReturnValue(body[Len(body)], r.t)
                           ELSE returned
    /\ pre' = target
    /\ UNCHANGED <<family, kind, phase, n>>

\* Variant of JsonOfValue that writes every object out as {}, as it does a Map
JsonOfValueEmpty(v) == IF v \in DOMAIN Heap THEN <<>> ELSE v

\* JSON.stringify(value, (key, value) => value, 2), as the document a reader of
\* the text gets back: an object is written out by content, a key whose value
\* is undefined is left out
RECURSIVE JsonOfValue(_)
JsonOfValue(v) ==
    IF v \in DOMAIN Heap
    THEN [key \in {x \in DOMAIN Heap[v] : Heap[v][x] # Undefined} |->
             JsonOfValue(Heap[v][key])]
    ELSE v

\* The fields of a root draft that hold a keyed collection or a list
ObjectFields == {"paths"}

ArrayFields == {"servers", "tags"} \cup (IF family = "3.1" THEN {"security"} ELSE {})

JsonOf(t) ==
    LET kept == {f \in DOMAIN t :
                    f \in ObjectFields \cup ArrayFields \/ t[f] # Undefined}
    IN  [f \in kept |->
            IF f \in ObjectFields \cup ArrayFields
            THEN [x \in DOMAIN t[f] |-> JsonOfValue(t[f][x])]
            ELSE JsonOfValue(t[f])]

\* builder.asJson(): serializes what build() returns
AsJson ==
    /\ phase = "live"
    /\ "asJson" \in DOMAIN Class
    /\ LET r == Exec(Class, Class["asJson"].body, target, <<>>)
       IN  /\ target' = r.t
           /\ last' = [method |-> "asJson", args |-> <<>>, err |-> r.err]
    /\ pre' = target
    /\ UNCHANGED <<family, kind, phase, n, built, returned>>

Next == Construct \/ Setter \/ KeyedAdder \/ ListAdder \/ Bulk \/ Build \/ AsJson

Spec == Init /\ [][Next]_vars

-----------------------------------------------------------------------------
(* Vocabulary of the properties *)

Is31 == family = "3.1" /\ phase = "live"

Is30 == family = "3.0" /\ phase = "live"

LastKind == IF last.method \in DOMAIN Class THEN Class[last.method].kind ELSE ""

Failed == last.err # NoError

\* The fields the top-level assignments of a method body write
AssignedFields(body) ==
    {body[i].f : i \in {j \in 1..Len(body) : body[j].op = "assign"}}

\* The single-valued field a setter writes
FieldOf(m) == CHOOSE f \in AssignedFields(Class[m].body) : TRUE

LastIsSetter31 ==
    /\ Is31
    /\ LastKind = "setter"
    /\ AssignedFields(Class[last.method].body) # {}

-----------------------------------------------------------------------------
(* Set-once fields *)

\* C1: on a 3.1 builder, a setter F called while F is already in the draft
\* (after a successful F(v1)) fails with Duplicate and the draft keeps v1;
\* build() then returns the draft as it is, so it shows v1 and never v2.
C1_SetOnce ==
    /\ (LastIsSetter31 /\ FieldOf(last.method) \in DOMAIN pre) =>
            /\ last.err.type = "DuplicateError"
            /\ target = pre
    /\ (Is31 /\ last.method = "build" /\ ~Failed) => target = pre

\* A second call F(v2) with v2 # v1 was refused and the draft still holds v1
C1_Witness ==
    /\ LastIsSetter31
    /\ n = 2
    /\ FieldOf(last.method) \in DOMAIN pre
    /\ pre[FieldOf(last.method)] # last.args[1]
    /\ last.err.type = "DuplicateError"
    /\ target[FieldOf(last.method)] = pre[FieldOf(last.method)]

-----------------------------------------------------------------------------
(* Mutually exclusive fields *)

\* The pairs of fields the 3.1 object types document as mutually exclusive,
\* as <<builder class, field, field>>; each field is written by the method of
\* the same name
ExclusivePairs ==
    { <<"LicenseObjectBuilder", "identifier", "url">>,
      <<"ExampleObjectBuilder", "value", "externalValue">>,
      <<"LinkObjectBuilder", "operationId", "operationRef">>,
      <<"MediaTypeObjectBuilder", "example", "examples">>,
      <<"ParameterObjectBuilder", "example", "examples">>,
      <<"HeaderObjectBuilder", "example", "examples">> }

\* The object name a builder class passes to the check helpers
ObjectName == SubSeq(kind, 1, Len(kind) - Len("Builder"))

\* C2: in every reachable state of a 3.1 builder at most one field of each
\* mutually exclusive pair is present in the draft.
C2_ExclusiveNeverBoth ==
    Is31 =>
        \A p \in ExclusivePairs :
            kind = p[1] => ~(p[2] \in DOMAIN target /\ p[3] \in DOMAIN target)

\* What a call setting `new` must answer when only `old` of its pair is present
RefusedAsExclusive(new, old) ==
    (/\ last.method = new
     /\ old \in DOMAIN pre
     /\ new \notin DOMAIN pre)
    => last.err = Error("ExclusiveError",
                        ObjectName \o " already has field '" \o old
                                   \o "' so cannot add field '" \o new \o "'")

\* C3: for every exclusive pair (A, B) of a 3.1 builder, B after A and A after
\* B both fail at the second call with Exclusive, and the failure names the
\* field already present and the field being set.
C3_ExclusiveSymmetric ==
    Is31 =>
        \A p \in ExclusivePairs :
            kind = p[1] =>
                /\ RefusedAsExclusive(p[3], p[2])
                /\ RefusedAsExclusive(p[2], p[3])

-----------------------------------------------------------------------------
(* Failed calls *)

\* C4: in both families, a single (non-bulk) setter or adder call that fails
\* leaves the draft exactly as it was before the call.
C4_FailureWritesNothing ==
    (phase = "live" /\ LastKind \in {"setter", "keyed", "list"} /\ Failed)
        => target = pre

\* The same for the builders of 3.1 alone
C4_FailureWritesNothing31 ==
    (Is31 /\ LastKind \in {"setter", "keyed", "list"} /\ Failed) => target = pre

-----------------------------------------------------------------------------
(* Keyed collections *)

\* The statement by which a keyed adder stores its entry: into a Map or plain
\* object held by a field of the draft, or (assignKey) into the draft itself
KeyedWrites(body) ==
    {i \in 1..Len(body) : body[i].op \in {"mapSet", "objSet", "assignKey"}}

KeyedWrite(m) ==
    LET body == Class[m].body IN body[CHOOSE i \in KeyedWrites(body) : TRUE]

\* The collection that statement w writes into, as it is in draft t
CollectionIn(t, w) ==
    IF w.op = "assignKey" THEN t
    ELSE IF w.f \in DOMAIN t THEN t[w.f] ELSE <<>>

KeyIn(w, args) ==
    CASE w.op = "mapSet"    -> args[w.i]
      [] w.op = "objSet"    -> PropName(w.g, args)
      [] w.op = "assignKey" -> PropName(w.f, args)

ValueIn(w, args) == IF w.op = "assignKey" THEN args[w.i] ELSE args[w.j]

\* The call `c` (a value of `last`) is a keyed adder of a 3.1 builder
IsKeyedAdder31(c) ==
    /\ Is31
    /\ c.method \in DOMAIN Class
    /\ Class[c.method].kind = "keyed"
    /\ KeyedWrites(Class[c.method].body) # {}

LastKey == KeyIn(KeyedWrite(last.method), last.args)

LastValue == ValueIn(KeyedWrite(last.method), last.args)

LastCollection(t) == CollectionIn(t, KeyedWrite(last.method))

\* C5: a 3.1 keyed adder called with a key its collection already holds fails
\* with Duplicate, whatever the value, and the collection keeps the first value.
C5_DuplicateKeyRefused ==
    (IsKeyedAdder31(last) /\ LastKey \in DOMAIN LastCollection(pre)) =>
        /\ last.err.type = "DuplicateError"
        /\ LastCollection(target) = LastCollection(pre)

\* C6: two successive calls of a 3.1 keyed adder with two distinct keys (the
\* second one not refused for the value of its key) both succeed, and the
\* collection then holds both keys with the values supplied.
C6_Step ==
    (/\ IsKeyedAdder31(last)
     /\ ~Failed
     /\ n' = n + 1
     /\ last'.method = last.method
     /\ KeyIn(KeyedWrite(last.method), last'.args) # LastKey
     /\ last'.err.type # "ValueError")
    => LET w  == KeyedWrite(last.method)
           c  == CollectionIn(target', w)
           k2 == KeyIn(w, last'.args)
       IN  /\ last'.err = NoError
           /\ LastKey \in DOMAIN c /\ c[LastKey] = LastValue
           /\ k2 \in DOMAIN c /\ c[k2] = ValueIn(w, last'.args)

\* C6 as a property of every step of a 3.1 builder
C6_DistinctKeysAccepted == [][C6_Step]_vars

-----------------------------------------------------------------------------
(* Path keys of the root builder *)

\* The paths collection of a root builder's draft
Paths(t) == IF "paths" \in DOMAIN t THEN t["paths"] ELSE <<>>

\* A failure for the value of an argument: ValueError in 3.1; the 3.0
\* builders have the single failure class Error
ValueCondition(e) ==
    \/ e.type = "ValueError"
    \/ family = "3.0" /\ e.type = "Error"

\* The single path adders of the root builders: path (3.1), pathItem (3.0)
LastIsRootPathAdder ==
    /\ phase = "live"
    /\ kind = "OpenApiObjectBuilder"
    /\ LastKind = "keyed"
    /\ last.method \in {"path", "pathItem"}

\* The bulk form: paths (3.1), pathItems and paths (3.0)
LastIsRootPathsBulk ==
    /\ phase = "live"
    /\ kind = "OpenApiObjectBuilder"
    /\ LastKind = "bulk"
    /\ last.method \in {"paths", "pathItems"}

EntryKeys(entries) == {entries[i][1] : i \in 1..Len(entries)}

\* C7: on the root builder of either family a path key without a leading "/"
\* is refused with a Value condition and the paths collection is unchanged; a
\* key with a leading "/" that is not yet present is accepted.  The same for
\* the entries of the bulk form.
C7_PathKeySyntax ==
    /\ LastIsRootPathAdder =>
          IF ~startsWith(last.args[1], "/")
          THEN /\ ValueCondition(last.err)
               /\ Paths(target) = Paths(pre)
          ELSE last.args[1] \notin DOMAIN Paths(pre) =>
                  /\ ~Failed
                  /\ last.args[1] \in DOMAIN Paths(target)
                  /\ Paths(target)[last.args[1]] = last.args[2]
    /\ (LastIsRootPathsBulk /\ EntryKeys(last.args[1]) \cap DOMAIN Paths(pre) = {}) =>
          IF \E k \in EntryKeys(last.args[1]) : ~startsWith(k, "/")
          THEN /\ ValueCondition(last.err)
               /\ \A k \in DOMAIN Paths(target) : startsWith(k, "/")
          ELSE /\ ~Failed
               /\ EntryKeys(last.args[1]) \subseteq DOMAIN Paths(target)

\* The same for the root builder of 3.0 alone
C7_PathKeySyntax30 == family = "3.0" => C7_PathKeySyntax

-----------------------------------------------------------------------------
(* URL-typed fields *)

\* The URL-typed fields, as <<builder class, method that takes the URL, field>>
UrlFields ==
    { <<"ContactObjectBuilder", "url", "url">>,
      <<"LicenseObjectBuilder", "url", "url">>,
      <<"InfoObjectBuilder", "termsOfService", "termsOfService">>,
      <<"ExternalDocsObjectBuilder", "constructor", "url">>,
      <<"ServerObjectBuilder", "constructor", "url">> }

\* No set-once or exclusivity condition stands before the validation of u
UrlCallIsFree(u) ==
    /\ u[3] \notin DOMAIN pre
    /\ \A p \in ExclusivePairs : kind = p[1] => {p[2], p[3]} \cap DOMAIN pre = {}

\* C8: in both families a string the URL validator rejects is refused with a
\* Value condition and is never in a draft under a URL-typed field; a string
\* it accepts is stored as given.
C8_UrlValidated ==
    \A u \in UrlFields :
        (kind = u[1] /\ phase # "new") =>
            /\ u[3] \in DOMAIN target => ParsesAsURL(target[u[3]])
            /\ (last.method = u[2] /\ UrlCallIsFree(u)) =>
                  IF ParsesAsURL(last.args[1])
                  THEN ~Failed /\ phase = "live" /\ target[u[3]] = last.args[1]
                  ELSE ValueCondition(last.err)

\* The same for the builders of 3.1 alone
C8_UrlValidated31 == family = "3.1" => C8_UrlValidated

-----------------------------------------------------------------------------
(* The draft after construction *)

CtorBody == Class["constructor"].body

\* The object literal the constructor assigns to this.target
CtorLiteral ==
    CtorBody[CHOOSE i \in 1..Len(CtorBody) : CtorBody[i].op = "newTarget"].f

\* <<field, i>>: the constructor takes the field from its i-th parameter, in
\* the literal or in a guarded assignment after it
CtorParamFields ==
    { <<CtorLiteral[j][1], CtorLiteral[j][2].i>> :
        j \in {x \in 1..Len(CtorLiteral) :
                  CtorLiteral[x][2].k \in {"arg", "argOrUndefined"}} }
    \cup
    { <<CtorBody[i].th[1].f, CtorBody[i].th[1].g.i>> :
        i \in {x \in 1..Len(CtorBody) : CtorBody[x].op = "if"} }

\* Required fields the class itself fills in: the version stamp of the root
\* and the required collections that start empty
CtorFixedFields ==
    { CtorLiteral[j][1] :
        j \in {x \in 1..Len(CtorLiteral) :
                  CtorLiteral[x][2].k = "empty" \/ CtorLiteral[x][1] = "openapi"} }

\* The fields the caller supplied with the arguments args
SuppliedFields(args) == {pf \in CtorParamFields : args[pf[2]] # Undefined}

\* C9: in both families the draft right after construction, and the value
\* build() returns from it, holds exactly the fields supplied to the
\* constructor; no other field is a key of it, and none has the value
\* undefined or null.
C9_OnlyConstructorFields ==
    (phase = "live" /\ n = 0) =>
        /\ \A pf \in CtorParamFields :
              pf[1] \in DOMAIN target => target[pf[1]] \notin {Undefined, Null}
        /\ last.method = "constructor" =>
              /\ DOMAIN target =
                    {pf[1] : pf \in SuppliedFields(last.args)} \cup CtorFixedFields
              /\ \A pf \in SuppliedFields(last.args) : target[pf[1]] = last.args[pf[2]]
        /\ (last.method = "build" /\ ~Failed) => target = pre

\* The same without the builders known to break it: SchemaObjectBuilder of
\* 3.0 and HeaderObjectBuilder of 3.1
C9_OnlyConstructorFieldsElsewhere ==
    ~(\/ family = "3.0" /\ kind = "SchemaObjectBuilder"
      \/ family = "3.1" /\ kind = "HeaderObjectBuilder")
    => C9_OnlyConstructorFields

-----------------------------------------------------------------------------
(* Required fields *)

\* C10: on a 3.1 builder the fields given to the constructor are in the draft
\* with the constructor's values after construction, no later call (successful
\* or failing) removes or changes them, and build() returns that draft.
C10_Step ==
    family = "3.1" =>
        /\ (phase = "new" /\ phase' = "live") =>
              \A pf \in CtorParamFields :
                  /\ pf[1] \in DOMAIN target'
                  /\ target'[pf[1]] = last'.args[pf[2]]
        /\ phase = "live" =>
              /\ \A pf \in CtorParamFields :
                    /\ pf[1] \in DOMAIN target'
                    /\ target'[pf[1]] = target[pf[1]]
              /\ (last'.method = "build" /\ last'.err = NoError) => target' = target

-----------------------------------------------------------------------------
(* Order of the checks *)

\* The last call is a setter of a 3.1 builder, or PathsObjectBuilder.pathItem
LastIsOrdered31 ==
    \/ LastIsSetter31
    \/ Is31 /\ kind = "PathsObjectBuilder" /\ last.method = "pathItem"

\* The field, or the path key, the last call sets
OrderedField ==
    IF LastKind = "setter" THEN FieldOf(last.method) ELSE last.args[1]

\* The set-once rule refuses the last call: its field is already in the draft
ViolatesSetOnce == OrderedField \in DOMAIN pre

\* The exclusivity rule refuses it: the other field of its pair is in the draft
ViolatesExclusive ==
    \E p \in ExclusivePairs :
        /\ kind = p[1]
        /\ \/ last.method = p[2] /\ p[3] \in DOMAIN pre
           \/ last.method = p[3] /\ p[2] \in DOMAIN pre

\* Value validation refuses it: an invalid URL, an empty enum, a path key
\* without its leading slash
ViolatesValue ==
    \/ \E u \in UrlFields :
          kind = u[1] /\ last.method = u[2] /\ ~ParsesAsURL(last.args[1])
    \/ kind = "ServerVariableObjectBuilder" /\ last.method = "enum"
          /\ Len(last.args[1]) = 0
    \/ kind = "PathsObjectBuilder" /\ last.method = "pathItem"
          /\ ~startsWith(last.args[1], "/")

ViolationCount ==
    (IF ViolatesSetOnce THEN 1 ELSE 0) + (IF ViolatesExclusive THEN 1 ELSE 0)
        + (IF ViolatesValue THEN 1 ELSE 0)

\* C11: a setter call of a 3.1 builder that violates more than one check
\* reports the first violated one in the order set-once (Duplicate), mutual
\* exclusion (Exclusive), value validation (Value).
\* PathsObjectBuilder.pathItem reports Duplicate for a key already present,
\* whatever the syntax of the key.
C11_CheckOrder ==
    /\ (LastIsOrdered31 /\ ViolationCount > 1) =>
            last.err.type = IF ViolatesSetOnce THEN "DuplicateError"
                            ELSE IF ViolatesExclusive THEN "ExclusiveError"
                            ELSE "ValueError"
    /\ (LastIsOrdered31 /\ LastKind = "keyed" /\ ViolatesSetOnce) =>
            last.err.type = "DuplicateError"

\* License identifier(i) then url("not a URL"): Exclusive is reported, not Value
C11_Witness ==
    /\ LastIsOrdered31
    /\ kind = "LicenseObjectBuilder"
    /\ last.method = "url"
    /\ ~ViolatesSetOnce /\ ViolatesExclusive /\ ViolatesValue
    /\ last.err.type = "ExclusiveError"

-----------------------------------------------------------------------------
(* build() *)

\* The builders whose build() can refuse the draft, or does not exist
BuildRefuses ==
    \/ Is30 /\ kind \in {"ParameterObjectBuilder", "HeaderObjectBuilder"}
    \/ Is31 /\ kind = "ServerVariableObjectBuilder"

\* C12: build() never raises a failure in any reachable state of any builder of
\* either family; violations are raised by the offending constructor, setter or
\* adder call and never deferred to build().
C12_BuildNeverFails == (last.method = "build") => ~Failed

\* build() of every other builder returns normally in every reachable state
C12_BuildNeverFailsElsewhere ==
    (last.method = "build" /\ ~BuildRefuses) => ~Failed

-----------------------------------------------------------------------------
(* Kinds of failure *)

FailureKinds == {"DuplicateError", "ExclusiveError", "ValueError"}

\* C13: every failure raised by a constructor, setter or adder of any builder
\* of either family is a Duplicate, an Exclusive or a Value failure, also when
\* a deduplicated list already holds a null or a number.
C13_OnlyThreeKinds ==
    (Failed /\ last.method # "build") => last.err.type \in FailureKinds

\* The same for the 3.1 builders alone
C13_OnlyThreeKinds31 ==
    (Is31 /\ Failed /\ last.method # "build") => last.err.type \in FailureKinds

\* Apart from the duplicate scan of a list that holds null, the 3.1 builders
\* raise the three kinds only
C13_OnlyThreeKinds31ExceptScan ==
    (Is31 /\ Failed /\ last.method # "build"
        /\ ~(LastKind \in {"list", "bulk"} /\ last.err.type = "TypeError"))
    => last.err.type \in FailureKinds

-----------------------------------------------------------------------------
(* Bulk adders *)

\* The bulk adders, as <<family, class, bulk adder, singular adder, field>>
BulkAdders ==
    {<<"3.1", "ComponentsObjectBuilder", "callbacks", "callback", "callbacks">>,
     <<"3.1", "ComponentsObjectBuilder", "examples", "example", "examples">>,
     <<"3.1", "ComponentsObjectBuilder", "headers", "header", "headers">>,
     <<"3.1", "ComponentsObjectBuilder", "links", "link", "links">>,
     <<"3.1", "ComponentsObjectBuilder", "parameters", "parameter", "parameters">>,
     <<"3.1", "ComponentsObjectBuilder", "pathItems", "pathItem", "pathItems">>,
     <<"3.1", "ComponentsObjectBuilder", "requestBodies", "requestBody", "requestBodies">>,
     <<"3.1", "ComponentsObjectBuilder", "responses", "response", "responses">>,
     <<"3.1", "ComponentsObjectBuilder", "schemas", "schema", "schemas">>,
     <<"3.1", "ComponentsObjectBuilder", "securitySchemes", "securityScheme", "securitySchemes">>,
     <<"3.1", "OpenApiObjectBuilder", "paths", "path", "paths">>,
     <<"3.1", "OpenApiObjectBuilder", "servers", "server", "servers">>,
     <<"3.1", "OpenApiObjectBuilder", "tags", "tag", "tags">>,
     <<"3.1", "OperationObjectBuilder", "parameters", "parameter", "parameters">>,
     <<"3.0", "ComponentsObjectBuilder", "callbacks", "callback", "callbacks">>,
     <<"3.0", "ComponentsObjectBuilder", "headers", "header", "headers">>,
     <<"3.0", "ComponentsObjectBuilder", "links", "link", "links">>,
     <<"3.0", "ComponentsObjectBuilder", "parameters", "parameter", "parameters">>,
     <<"3.0", "ComponentsObjectBuilder", "requestBodies", "requestBody", "requestBodies">>,
     <<"3.0", "ComponentsObjectBuilder", "responses", "response", "responses">>,
     <<"3.0", "ComponentsObjectBuilder", "schemas", "schema", "schemas">>,
     <<"3.0", "OpenApiObjectBuilder", "pathItems", "pathItem", "paths">>,
     <<"3.0", "OpenApiObjectBuilder", "tags", "tag", "tags">>}

LastIsBulkAdder ==
    \E b \in BulkAdders : family = b[1] /\ kind = b[2] /\ last.method = b[3]

LastBulk ==
    CHOOSE b \in BulkAdders : family = b[1] /\ kind = b[2] /\ last.method = b[3]

\* The entries of the last bulk call as <<key, value>>; a list has no keys
BulkEntries ==
    LET coll == last.args[1]
    IN  IF Class[last.method].sig[1] = "elements"
        THEN [x \in 1..Len(coll) |-> <<"", coll[x]>>]
        ELSE coll

BulkIsKeyed == Class[LastBulk[4]].kind = "keyed"

\* The calls of the singular adder that the entries stand for, in the caller's order
SingularCalls ==
    [x \in 1..Len(BulkEntries) |->
        IF BulkIsKeyed THEN BulkEntries[x] ELSE <<BulkEntries[x][2]>>]

\* The outcome of the first i of these calls made one after the other on `pre`
AfterSingular(i) ==
    ExecCalls(Class, LastBulk[4], pre, SubSeq(SingularCalls, 1, i), 1)

\* The first entry whose singular call fails; one past the last entry if none does
FirstFailing ==
    LET k   == Len(BulkEntries)
        bad == {i \in 1..k : AfterSingular(i).err # NoError}
    IN  IF bad = {} THEN k + 1 ELSE CHOOSE i \in bad : \A j \in bad : i <= j

BulkCollection(t) == IF LastBulk[5] \in DOMAIN t THEN t[LastBulk[5]] ELSE <<>>

\* C14: a bulk adder applies its entries one at a time, in the caller's
\* iteration order, through the singular adder; when entry i fails the entries
\* before i are in the draft, entry i and the later ones are not, and the
\* failure raised is that of entry i.
C14_BulkStopsAtFirstFailure ==
    LastIsBulkAdder =>
        LET k == Len(BulkEntries)
            i == FirstFailing
            e == BulkEntries
        IN  /\ Failed <=> i <= k
            /\ Failed => last.err = AfterSingular(i).err
            /\ target = AfterSingular(i - 1).t
                  \/ (Failed /\ target = AfterSingular(i).t)
            /\ BulkIsKeyed =>
                  /\ \A j \in 1..(i - 1) :
                        /\ e[j][1] \in DOMAIN BulkCollection(target)
                        /\ BulkCollection(target)[e[j][1]] = e[j][2]
                  /\ \A j \in i..k :
                        e[j][1] \in DOMAIN BulkCollection(target) =>
                            /\ e[j][1] \in DOMAIN BulkCollection(pre)
                            /\ BulkCollection(target)[e[j][1]] = BulkCollection(pre)[e[j][1]]
            /\ ~BulkIsKeyed =>
                  BulkCollection(target) =
                      BulkCollection(pre) \o [j \in 1..(i - 1) |-> e[j][2]]

\* A bulk call of two entries whose second entry fails: the first is in the draft
C14_Witness ==
    /\ LastIsBulkAdder
    /\ Len(BulkEntries) = 2
    /\ Failed
    /\ FirstFailing = 2
    /\ BulkCollection(target) # BulkCollection(pre)

-----------------------------------------------------------------------------
(* Lists without duplicate values *)

\* The deduplicated lists of the 3.1 root builder, as <<adder, field>>
DedupedLists == {<<"security", "security">>, <<"server", "servers">>, <<"tag", "tags">>}

\* Structural equality of two heap objects: the same keys, the same primitive
\* values, and structurally equal nested objects
RECURSIVE StructurallyEqual(_, _)
StructurallyEqual(a, b) ==
    /\ DOMAIN Heap[a] = DOMAIN Heap[b]
    /\ \A key \in DOMAIN Heap[a] :
          IF Heap[a][key] \in DOMAIN Heap /\ Heap[b][key] \in DOMAIN Heap
          THEN StructurallyEqual(Heap[a][key], Heap[b][key])
          ELSE Heap[a][key] = Heap[b][key]

ListIn(t, f) == IF f \in DOMAIN t THEN t[f] ELSE <<>>

LastIsRoot31 == Is31 /\ kind = "OpenApiObjectBuilder" /\ phase = "live"

\* C15: on the 3.1 root builder, adding to servers, tags or security a value
\* structurally equal to an element of the list fails with Duplicate and leaves
\* the list unchanged, also when the two are distinct objects; so no two
\* elements of such a list are ever structurally equal.
C15_NoDeepEqualElements ==
    LastIsRoot31 =>
        /\ \A d \in DedupedLists :
              (last.method = d[1]
                  /\ \E i \in 1..Len(ListIn(pre, d[2])) :
                        StructurallyEqual(ListIn(pre, d[2])[i], last.args[1]))
              => /\ last.err.type = "DuplicateError"
                 /\ ListIn(target, d[2]) = ListIn(pre, d[2])
        /\ \A d \in DedupedLists :
              \A i, j \in 1..Len(ListIn(target, d[2])) :
                  i # j => ~StructurallyEqual(ListIn(target, d[2])[i],
                                              ListIn(target, d[2])[j])

\* A second server that is another object with the same nested content is refused
C15_Witness ==
    /\ LastIsRoot31
    /\ last.method = "server"
    /\ ListIn(pre, "servers") = <<"o4">>
    /\ last.args[1] = "o5"
    /\ last.err.type = "DuplicateError"
    /\ ListIn(target, "servers") = <<"o4">>

-----------------------------------------------------------------------------
(* List adders *)

\* The list field a list adder appends to
PushField(m) ==
    LET body == Class[m].body
    IN  body[CHOOSE i \in 1..Len(body) : body[i].op = "push"].f

\* C16: a successful call of a list adder of either family appends its value to
\* the list as it was (empty when the field was absent), so that after n
\* successful calls the list holds the n values in call order.
C16_ListKeepsCallOrder ==
    (LastKind = "list" /\ ~Failed) =>
        ListIn(target, PushField(last.method))
            = Append(ListIn(pre, PushField(last.method)), last.args[1])

\* The same for every list adder but PathItemObjectBuilder.server of 3.0
C16_ListKeepsCallOrderElsewhere ==
    (LastKind = "list" /\ ~Failed
        /\ ~(Is30 /\ kind = "PathItemObjectBuilder" /\ last.method = "server"))
    => ListIn(target, PushField(last.method))
            = Append(ListIn(pre, PushField(last.method)), last.args[1])

-----------------------------------------------------------------------------
(* The document of a root builder *)

\* The version string of each family
FixedVersion == "3.0" :> "3.0.3" @@ "3.1" :> "3.1.0"

\* The document has a value at the end of the given chain of keys
RECURSIVE HasPath(_, _)
HasPath(doc, keys) ==
    keys = <<>> \/ (Head(keys) \in DOMAIN doc /\ HasPath(doc[Head(keys)], Tail(keys)))

\* The draft of a root builder holds the path item with GET and "200" at "/widgets"
HasWidgets(t) ==
    /\ "paths" \in DOMAIN t
    /\ "/widgets" \in DOMAIN t["paths"]
    /\ t["paths"]["/widgets"] = "p1"

-----------------------------------------------------------------------------
(* Failure messages *)

\* The last call is a set-once setter of a 3.1 builder for a string-valued
\* field, refused with Duplicate
LastIsRefusedStringSetter ==
    /\ LastIsSetter31
    /\ Class[last.method].sig[1] \in {"string", "url"}
    /\ last.err.type = "DuplicateError"

\* C18: the Duplicate failure of a set-once setter F(v2) after F(v1) on node
\* kind K has the message "K already has F 'v1'": it carries the node kind, the
\* field and the existing value, and does not mention v2.
C18_DuplicateMessage ==
    LastIsRefusedStringSetter =>
        last.err.message =
            ObjectName \o " already has " \o FieldOf(last.method) \o " '"
                \o pre[FieldOf(last.method)] \o "'"

\* The failure does name the node kind and the field, and does not depend on v2
C18_DuplicateMessageNamesField ==
    LastIsRefusedStringSetter =>
        last.err.message =
            ObjectName \o " already has field '" \o FieldOf(last.method) \o "'"

-----------------------------------------------------------------------------
(* After build() *)

\* The value a parent draft holds once it was given what build() returned
Embedded == IF returned.alias THEN target ELSE returned.content

\* C19: build() returns the draft itself, and the builder stays mutable: after
\* build(), a successful setter or adder call on the builder changes the value
\* that every parent holding the returned value sees.
C19_BuiltValueIsTheDraft ==
    (returned.given /\ LastKind \in {"setter", "keyed", "list", "bulk"} /\ ~Failed)
        => Embedded = target

\* A setter call after build() that succeeds and changes the embedded value
C19_Witness ==
    /\ returned.given
    /\ LastKind = "setter"
    /\ ~Failed
    /\ target # pre
    /\ Embedded = target

-----------------------------------------------------------------------------
(* ServerVariableObjectBuilder.enum *)

LastIsServerVariableEnum ==
    Is31 /\ kind = "ServerVariableObjectBuilder" /\ last.method = "enum"

\* C20: ServerVariableObjectBuilder.enum(values) fails with Duplicate when an
\* enum is already set, whatever `values` is; with no enum set it fails with a
\* Value condition for an empty sequence, leaving the draft without enum, and
\* stores a non-empty sequence.
C20_ServerVariableEnum ==
    LastIsServerVariableEnum =>
        IF "enum" \in DOMAIN pre
        THEN last.err.type = "DuplicateError" /\ target = pre
        ELSE IF Len(last.args[1]) = 0
        THEN last.err.type = "ValueError" /\ "enum" \notin DOMAIN target
        ELSE ~Failed /\ target = Put(pre, "enum", last.args[1])

\* enum([]) on a builder that already has an enum: Duplicate, not Value
C20_Witness ==
    /\ LastIsServerVariableEnum
    /\ "enum" \in DOMAIN pre
    /\ Len(last.args[1]) = 0
    /\ last.err.type = "DuplicateError"

\* enum([]) on a builder without an enum: refused with a Value condition
C20_WitnessEmpty ==
    /\ LastIsServerVariableEnum
    /\ "enum" \notin DOMAIN pre
    /\ Len(last.args[1]) = 0
    /\ last.err.type = "ValueError"

-----------------------------------------------------------------------------
(* Set-once fields of the 3.0 builders *)

\* The last call is a single-valued setter of a 3.0 builder
LastIsSetter30 ==
    /\ Is30
    /\ LastKind = "setter"
    /\ AssignedFields(Class[last.method].body) # {}
    /\ Class[last.method].sig[1] # "strings"

\* The field the last setter writes holds a non-null value in draft t
HoldsValue(t) ==
    /\ FieldOf(last.method) \in DOMAIN t
    /\ t[FieldOf(last.method)] \notin {Null, Undefined}

\* C21: every single-valued field of a 3.0 builder is set-once: a setter called
\* when its field already holds a non-null value fails and the draft keeps the
\* first value.
C21_SetOnce30 ==
    (LastIsSetter30 /\ HoldsValue(pre)) => (Failed /\ target = pre)

\* The setters of the 3.0 builders that do refuse a second value
SetOnceSetters30 ==
    {<<"PathItemObjectBuilder", m>> :
        m \in {"delete", "get", "head", "options", "patch", "post", "put", "trace"}}
    \cup {<<"MediaTypeObjectBuilder", "schema">>}

\* Those setters keep the first value
C21_SetOnce30Guarded ==
    (LastIsSetter30 /\ HoldsValue(pre) /\ <<kind, last.method>> \in SetOnceSetters30)
        => (Failed /\ target = pre)

-----------------------------------------------------------------------------
(* Lists whose elements may be references *)

\* The list adders of the 3.1 builders whose elements may be Reference Objects
ReferenceLists ==
    {<<"OperationObjectBuilder", "parameter">>,
     <<"PathItemObjectBuilder", "parameter">>,
     <<"SchemaObjectBuilder", "allOf">>,
     <<"SchemaObjectBuilder", "anyOf">>,
     <<"SchemaObjectBuilder", "oneOf">>}

LastIsReferenceList == Is31 /\ LastKind = "list" /\ <<kind, last.method>> \in ReferenceLists

\* C22: no duplicate check is made on a list of the 3.1 builders whose elements
\* may be Reference Objects: adding a value never fails with Duplicate, also
\* when it is deep-equal to, or the same object as, an element of the list, and
\* the list then holds the value twice.
C22_NoDedupOnReferenceLists ==
    LastIsReferenceList =>
        /\ last.err.type # "DuplicateError"
        /\ ListIn(target, PushField(last.method))
              = Append(ListIn(pre, PushField(last.method)), last.args[1])

\* The same for the parameter lists alone
C22_NoDedupOnParameters ==
    (LastIsReferenceList /\ last.method = "parameter") =>
        /\ ~Failed
        /\ ListIn(target, PushField(last.method))
              = Append(ListIn(pre, PushField(last.method)), last.args[1])

-----------------------------------------------------------------------------
(* Set-once and falsy values *)

\* The last call is a set-once setter of a 3.1 builder for a scalar field that
\* already holds a non-null value
LastSetsHeldField ==
    /\ LastIsSetter31
    /\ Class[last.method].sig[1] # "strings"
    /\ HoldsValue(pre)

\* C23: the set-once check fails with Duplicate whenever the current value of
\* the field is present (non-null), also when it is false, 0 or "", and the
\* draft keeps that value; under the field-name convention of checkDuplicate
\* and under the value convention.
C23_SetOnceOnFalsyValues ==
    LastSetsHeldField =>
        /\ last.err.type = "DuplicateError"
        /\ target = pre
        /\ checkDuplicateValue(ObjectName, FieldOf(last.method),
                               pre[FieldOf(last.method)]).type = "DuplicateError"

\* Under the field-name convention the check refuses every present value
C23_SetOnceOnFalsyValuesByName ==
    LastSetsHeldField => (last.err.type = "DuplicateError" /\ target = pre)

-----------------------------------------------------------------------------
(* What a failure names *)

\* sub occurs in s
Contains(s, sub) ==
    \E i \in 1..(Len(s) - Len(sub) + 1) : SubSeq(s, i, i + Len(sub) - 1) = sub

\* The field or collection a 3.1 setter or adder writes
WrittenField ==
    IF LastKind = "setter" THEN FieldOf(last.method)
    ELSE IF LastKind = "list" THEN PushField(last.method)
    ELSE IF KeyedWrite(last.method).op = "assignKey" THEN LastKey
    ELSE KeyedWrite(last.method).f

LastIsFailedCall31 ==
    /\ Is31
    /\ LastKind \in {"setter", "keyed", "list"}
    /\ LastKind = "setter" => AssignedFields(Class[last.method].body) # {}
    /\ LastKind = "keyed" => KeyedWrites(Class[last.method].body) # {}
    /\ last.err.type \in FailureKinds

\* The failure names the node kind and the field; for a keyed adder the key
\* that was being added stands for the field as well
NamesKindAndField ==
    /\ startsWith(last.err.message, ObjectName \o " ")
    /\ \/ Contains(last.err.message, "'" \o WrittenField \o "'")
       \/ LastKind = "keyed" /\ Contains(last.err.message, "'" \o LastKey \o "'")

\* C24: every failure raised by a setter or adder of a 3.1 builder names the
\* node kind of the builder the call was made on and the field that was being
\* set or added to.
C24_FailureNamesKindAndField == LastIsFailedCall31 => NamesKindAndField


\* The calls whose failures name another node kind, another field, or none
MisnamedFailures ==
    {<<"PathsObjectBuilder", "pathItem">>,
     <<"OpenApiObjectBuilder", "security">>,
     <<"OpenApiObjectBuilder", "tag">>,
     <<"MediaTypeObjectBuilder", "examples">>}

\* Every other failing setter or adder of the 3.1 builders names both
C24_FailureNamesKindAndFieldElsewhere ==
    (LastIsFailedCall31 /\ <<kind, last.method>> \notin MisnamedFailures)
        => NamesKindAndField

-----------------------------------------------------------------------------
(* The comparator of the duplicate scan *)

\* The last call adds value b to a deduplicated list of the 3.1 root builder
\* that holds the single element a
ComparesWith(a, b) ==
    /\ LastIsRoot31
    /\ \E d \in DedupedLists :
          last.method = d[1] /\ ListIn(pre, d[2]) = <<a>> /\ last.args[1] = b

\* C25: the comparator of the duplicate scan is a structural equality: the
\* scan of a list holding a refuses b exactly when a and b have the same
\* property names and, recursively, equal values; so it is symmetric and
\* reflexive, and two records with as many properties under different names
\* are not equal.
C25_DeepEqualIsStructural ==
    \A a, b \in ElementVals :
        ComparesWith(a, b) =>
            /\ (last.err.type = "DuplicateError") <=> StructurallyEqual(a, b)
            /\ (last.err.type = "DuplicateError") <=> deepEqual(b, a)

\* On records without a property whose value is undefined the comparator is
\* the structural equality
C25_DeepEqualIsStructuralOnDefined ==
    \A a, b \in {"o1", "o2", "o3", "o4", "o5", "o6"} :
        ComparesWith(a, b) =>
            /\ (last.err.type = "DuplicateError") <=> StructurallyEqual(a, b)
            /\ (last.err.type = "DuplicateError") <=> deepEqual(b, a)

-----------------------------------------------------------------------------
(* Deduplicated lists of primitives *)

PrimitiveLists ==
    {<<"SchemaPropertyObjectBuilder", "enum">>,
     <<"SchemaPropertyObjectBuilder", "required">>,
     <<"SchemaObjectBuilder", "required">>}

Elements(list) == {list[i] : i \in 1..Len(list)}

\* The last call adds a string or a number to a deduplicated list of strings
\* and numbers
LastAddsPrimitive ==
    /\ Is31
    /\ <<kind, last.method>> \in PrimitiveLists
    /\ last.args[1] # Null
    /\ Null \notin Elements(ListIn(pre, PushField(last.method)))

\* C26: adding a value to a deduplicated list of primitives of the 3.1 builders
\* fails with Duplicate if and only if an equal value is already in the list;
\* distinct strings and distinct numbers are accepted and kept in call order.
C26_PrimitiveDedup ==
    LastAddsPrimitive =>
        LET list == ListIn(pre, PushField(last.method))
        IN  IF last.args[1] \in Elements(list)
            THEN last.err.type = "DuplicateError" /\ target = pre
            ELSE ~Failed /\ ListIn(target, PushField(last.method)) = Append(list, last.args[1])

\* The same for strings alone
C26_PrimitiveDedupOfStrings ==
    (LastAddsPrimitive /\ last.args[1] \in StringVals
        /\ Elements(ListIn(pre, PushField(last.method))) \subseteq StringVals) =>
        LET list == ListIn(pre, PushField(last.method))
        IN  IF last.args[1] \in Elements(list)
            THEN last.err.type = "DuplicateError" /\ target = pre
            ELSE ~Failed /\ ListIn(target, PushField(last.method)) = Append(list, last.args[1])

-----------------------------------------------------------------------------
(* HeaderObject *)

\* C27: the value returned by a successful build() of a HeaderObjectBuilder of
\* either family has neither an `in` field nor a `name` field.
C27_HeaderHasNoInNoName ==
    (kind = "HeaderObjectBuilder" /\ last.method = "build" /\ ~Failed) =>
        ("in" \notin DOMAIN target /\ "name" \notin DOMAIN target)

\* The same for the 3.0 builder alone
C27_HeaderHasNoInNoName30 ==
    (Is30 /\ kind = "HeaderObjectBuilder" /\ last.method = "build" /\ ~Failed) =>
        ("in" \notin DOMAIN target /\ "name" \notin DOMAIN target)

-----------------------------------------------------------------------------
(* Keyed collections of the 3.0 builders *)

\* The collection each adder of the 3.0 ComponentsObjectBuilder writes into
ComponentsCollection30 ==
    "callback" :> "callbacks" @@ "example" :> "examples" @@ "header" :> "headers"
    @@ "link" :> "links" @@ "parameter" :> "parameters"
    @@ "requestBody" :> "requestBodies" @@ "response" :> "responses"
    @@ "schema" :> "schemas"

LastIsComponentsAdder30 ==
    Is30 /\ kind = "ComponentsObjectBuilder" /\ last.method \in DOMAIN ComponentsCollection30

\* C28: every adder of the 3.0 ComponentsObjectBuilder refuses a name already
\* registered in its collection and keeps the first value, the key "default"
\* of response included.
C28_ComponentsNamesUnique30 ==
    LET f == ComponentsCollection30[last.method]
    IN  (LastIsComponentsAdder30 /\ last.args[1] \in DOMAIN ListIn(pre, f)) =>
            (Failed /\ ListIn(target, f) = ListIn(pre, f))

\* The same for every name but "default"
C28_ComponentsNamesUnique30ButDefault ==
    LET f == ComponentsCollection30[last.method]
    IN  (LastIsComponentsAdder30 /\ last.args[1] \in DOMAIN ListIn(pre, f)
            /\ last.args[1] # "default") =>
            (Failed /\ ListIn(target, f) = ListIn(pre, f))


\* C29: in the 3.0 OperationObjectBuilder a response status code cannot be
\* given twice: adding a response under a code already in the operation's
\* responses fails and the responses keep the first response for that code.
C29_OperationStatusCodesUnique30 ==
    (Is30 /\ kind = "OperationObjectBuilder" /\ last.method = "response"
        /\ last.args[1] \in DOMAIN ListIn(pre, "responses")) =>
        (Failed /\ ListIn(target, "responses") = ListIn(pre, "responses"))

\* Under a status code that is not yet present the response is added
C29_OperationNewStatusCode30 ==
    (Is30 /\ kind = "OperationObjectBuilder" /\ last.method = "response"
        /\ last.args[1] \notin DOMAIN ListIn(pre, "responses")) =>
        (~Failed /\ ListIn(target, "responses")
                        = Put(ListIn(pre, "responses"), last.args[1], last.args[2]))

-----------------------------------------------------------------------------
(* build() of the 3.1 builders *)

\* C30: build() of a 3.1 builder has no effect on the draft: whenever it is
\* called it leaves every field and collection as it was and returns the same
\* value, the draft itself; and a later setter or adder call succeeds or fails
\* as it does on the same draft of a builder that was never built.
C30_BuildHasNoEffect ==
    Is31 =>
        /\ last.method = "build" =>
              /\ target = pre
              /\ ~Failed => returned = ReturnValue(ReturnTarget, target)
        /\ (built /\ LastKind \in {"setter", "keyed", "list", "bulk"}) =>
              LET r == Exec(Class, Class[last.method].body, pre, last.args)
              IN  last.err = r.err /\ target = r.t

\* build() on a 3.1 builder whose draft was filled by two calls
C30_Witness ==
    /\ Is31
    /\ last.method = "build"
    /\ ~Failed
    /\ n = MaxCalls
    /\ target = pre
    /\ DOMAIN target # {}

====
